---- MODULE Spec2Model ----
(***************************************************************************)
(* Financial state and decision engine of the fuel-tank expense tracker:   *)
(* the ledger store (appStore.ts), the notification store, the             *)
(* notification service, the achievement service, the gamification engine, *)
(* the suggestions store and the persist middleware (persistence.ts).      *)
(*                                                                         *)
(* Conventions.                                                            *)
(*  - Money amounts are the integers the callers pass.                     *)
(*  - A date is its age in whole days before "now"; the clock does not     *)
(*    advance during a run, so the trailing 30-day window is age <= 30.    *)
(*  - averageDailySpend is the rational num/den (the code's double         *)
(*    total/30); Math.floor(balance / averageDailySpend) is computed with  *)
(*    the IEEE-754 result of that division (FloatRoundsBelow).             *)
(*  - appStore.ts uses createSalaryNotification, createBigSpendNotification*)
(*    useNotificationStore and NotificationService without importing them; *)
(*    they are bound here to the exports of the notification store and of  *)
(*    notificationService.ts, which is what the store tests rely on.       *)
(***************************************************************************)
EXTENDS Integers, Sequences, FiniteSets, TLC

VARIABLES
  salary,             \* AppState.salary (present = FALSE models null)
  expenses,           \* AppState.expenses
  recurringBills,     \* AppState.recurringBills
  currentBalance,     \* AppState.currentBalance (cached)
  daysRemaining,      \* AppState.daysRemaining (cached)
  averageDailySpend,  \* AppState.averageDailySpend (cached)
  fuelStatus,         \* AppState.fuelStatus (cached)
  error,              \* AppState.error
  notifications,      \* NotificationState.notifications, newest first
  unreadCount,        \* NotificationState.unreadCount
  settings,           \* NotificationState.settings
  achievements,       \* AchievementService.achievements
  timeOfDay,          \* local time of day in minutes (the "HH:MM" of new Date())
  nextId,             \* source of generateId() values
  sentLog,            \* what the last operation handed to the device notifier
  lastOp,             \* the last operation, its arguments and the state it started from
  opCount,            \* number of operations performed
  effectDeps,         \* NotificationHandler: dependencies of the fuel effect's last run
  fuelLog,            \* the last two recomputations seen by the fuel effect
  engine,             \* a caller of GamificationEngine: previous status and last results
  suggestions,        \* SuggestionsState.suggestions
  suggestionsHistory, \* SuggestionsState.suggestionsHistory
  isGenerating,       \* SuggestionsState.isGenerating
  suggestionsError,   \* SuggestionsState.error
  inFlight,           \* generateSuggestions calls awaiting the AI service
  suggestionOps,      \* number of calls made to the suggestions store
  storage,            \* AsyncStorage: the item stored under STORAGE_KEYS.APP_STORE
  persists,           \* the app store's actions write through persistedSet
  device,             \* the device's condition: storage and notifier faults
  notificationStorage,  \* the item stored under STORAGE_KEYS.NOTIFICATION_STORE
  notificationPersists, \* the notification store's actions write through persistedSet
  suggestionsStorage, \* the item stored under STORAGE_KEYS.SUGGESTIONS_STORE
  pendingLoad         \* the app store's initial getItem that has not been answered yet

vars == <<salary, expenses, recurringBills, currentBalance, daysRemaining,
          averageDailySpend, fuelStatus, error, notifications, unreadCount,
          settings, timeOfDay, achievements, nextId, sentLog, lastOp, opCount,
          effectDeps, fuelLog, engine, suggestions, suggestionsHistory,
          isGenerating, suggestionsError, inFlight, suggestionOps,
          storage, persists, device, notificationStorage, notificationPersists,
          suggestionsStorage, pendingLoad>>

suggestionVars == <<suggestions, suggestionsHistory, isGenerating, suggestionsError,
                    inFlight, suggestionOps>>

deviceVars == <<storage, persists, device>>

restartVars == <<notificationStorage, notificationPersists, suggestionsStorage,
                 pendingLoad>>

----------------------------------------------------------------------------
(* Bounds of the exploration *)

MaxOps == 4
MaxEngineCalls == 2
MaxInboxOps == 4
MaxDeliveryOps == 3
MaxSuggestionOps == 3
MaxLedgerOps == 2
MaxAchievementOps == 3
MaxDeviceOps == 4
MaxCalculationOps == 4
MaxSuggestionEngineCalls == 1
MaxHistoryOps == 22
MaxPatchOps == 4
MaxRestartOps == 4

(* Inputs the operations are called with *)

Salaries == {10000, 15000}

ExpenseInputs ==
  { [amount |-> 2000, age |-> 0,  source |-> "manual",    category |-> "Food"],
    [amount |-> 1500, age |-> 1,  source |-> "manual",    category |-> "Transport"],
    [amount |-> 1000, age |-> 2,  source |-> "manual",    category |-> "Entertainment"],
    [amount |-> 1000, age |-> 0,  source |-> "recurring", category |-> "Rent"],
    [amount |-> 500,  age |-> 40, source |-> "manual",    category |-> "Food"] }

ExpensePatches == { [amount |-> 1000], [amount |-> 2000] }

BillInputs ==
  { [amount |-> 8000, autoDeduct |-> TRUE],
    [amount |-> 1000, autoDeduct |-> TRUE],
    [amount |-> 1000, autoDeduct |-> FALSE] }

BillPatches == { [autoDeduct |-> FALSE], [autoDeduct |-> TRUE], [isActive |-> FALSE] }

UnknownId == 0

\* with the tab layout mounted
MountedSalaries == {10000}
MountedExpenseInputs ==
  { [amount |-> 9100, age |-> 0, source |-> "manual", category |-> "Food"],
    [amount |-> 200,  age |-> 0, source |-> "manual", category |-> "Transport"],
    [amount |-> 4000, age |-> 1, source |-> "manual", category |-> "Shopping"] }

\* the ledger operations made while suggestions are generated
SuggestionSalaries == {10000}
SuggestionExpenseInputs ==
  { [amount |-> 9100, age |-> 0, source |-> "manual", category |-> "Food"] }

\* how the AI service settles a call: its promise resolves, rejects, or stays pending
ServiceOutcomes == {"resolves", "rejects", "pending"}

\* arguments of the notification store's operations
InboxInputs ==
  { [type |-> "fuel_low", title |-> "Low Fuel", priority |-> "high",
     actionData |-> [none |-> TRUE]],
    [type |-> "salary_received", title |-> "Salary", priority |-> "normal",
     actionData |-> [none |-> TRUE]] }

NotificationTypes ==
  {"fuel_low", "fuel_empty", "big_spend", "achievement", "salary_received",
   "bill_due", "daily_reminder"}

DeliveryInputs ==
  { [type |-> type, title |-> "Title", priority |-> priority,
     actionData |-> [none |-> TRUE]] :
      type \in NotificationTypes, priority \in {"normal", "urgent"} }

\* new Date() at the calls of addNotification: 03:00 and 12:00
ClockTimes == {3 * 60, 12 * 60}

SettingsPatches ==
  { [fuelAlerts |-> FALSE, bigSpendAlerts |-> FALSE],
    [achievementAlerts |-> FALSE, billReminders |-> FALSE, dailyReminders |-> FALSE],
    [fuelAlerts |-> TRUE, achievementAlerts |-> TRUE],
    [quietHours |-> [enabled |-> TRUE, startTime |-> 22 * 60, endTime |-> 8 * 60]],
    [quietHours |-> [enabled |-> TRUE, startTime |-> 9 * 60, endTime |-> 17 * 60]] }

\* the ledger operations and the direct calls made to the achievement service;
\* addExpense takes any number as the amount
AchievementSalaries == {10000}
AchievementExpenseInputs ==
  { [amount |-> 500,  age |-> 0, source |-> "manual", category |-> "Investment"],
    [amount |-> -500, age |-> 0, source |-> "manual", category |-> "Investment"],
    [amount |-> 0,    age |-> 0, source |-> "manual", category |-> "Food"] }
ProgressIds == {"investment-starter", "fuel-efficient", "no-such-achievement"}
ProgressIncrements == {1, 500}

\* the operations made while the device's storage or notifier is failing
DeviceSalaries == {10000}
DeviceExpenseInputs ==
  { [amount |-> 2000, age |-> 0, source |-> "manual", category |-> "Food"] }
DeviceNotificationInputs ==
  { [type |-> "bill_due", title |-> "Bill Due", priority |-> "normal",
     actionData |-> [none |-> TRUE]] }
\* which writes of a handler fail: none, all, or all after its first one
StorageFaults == {"none", "all", "afterFirst"}

\* the ledger operations made between calls of the calculations: with a
\* salary of 10000 the first expense leaves 75.4%, the second 75%
CalculationSalaries == {10000}
CalculationExpenseInputs ==
  { [amount |-> 2460, age |-> 0, source |-> "manual", category |-> "Food"],
    [amount |-> 2500, age |-> 1, source |-> "manual", category |-> "Transport"] }
CalculationEngineBalances == {7540, 7500}

\* arguments of the gamification engine's fuel calculation
EngineSalary == 10000
EngineBalances == {700, 900, 3000}
EngineAvgDailySpend == [num |-> 3000, den |-> 30]
EngineRecentExpenses ==
  { << >>, << [id |-> 1, amount |-> 500, category |-> "Food"] >> }

\* financial contexts and analytics handed to SuggestionEngine.generateSuggestions:
\* balances on both sides of 5%, 10%, 30% and 50% of the salary, days left on
\* both sides of 3, 7, 10, 20 and 25
SuggestionEngineBalances == {400, 500, 900, 1000, 3001, 5001}
SuggestionEngineDaysLeft == {0, 2, 3, 6, 9, 10, 21, 26}
SuggestionEngineAvgDailySpends == {[num |-> 9000, den |-> 30], [num |-> 12000, den |-> 30]}
SuggestionEngineBillAmounts == {4000, 5000}
\* what the user does around a restart of the app
RestartSalaries == {10000}
RestartExpenseInputs ==
  { [amount |-> 2000, age |-> 0, source |-> "manual", category |-> "Food"] }
RestartNotificationInputs ==
  { [type |-> "bill_due", title |-> "Bill Due", priority |-> "normal",
     actionData |-> [none |-> TRUE]] }

\* expenses logged and the Partial<Expense> patches applied to them: a patch may
\* name any field of an expense, its id included
PatchExpenseInputs ==
  { [amount |-> 500, age |-> 0, source |-> "manual", category |-> "Food"] }
IdPatches == { [amount |-> 1000], [id |-> 1], [id |-> 7, amount |-> 1000] }

\* suggestions a client adds to the store before applying and dismissing them
HistorySuggestionInputs ==
  { [type |-> "savings", title |-> "Smart Savings", priority |-> "normal",
     impact |-> [confidenceScore |-> 80]],
    [type |-> "emergency", title |-> "Low Fuel Warning", priority |-> "high",
     impact |-> [confidenceScore |-> 85]] }

SuggestionEngineContexts ==
  { [balance |-> b, daysLeft |-> d, salary |-> EngineSalary, avgDailySpend |-> a,
     topCategories |-> << >>, totalExpenses |-> 0, recurringBillsAmount |-> r] :
      b \in SuggestionEngineBalances, d \in SuggestionEngineDaysLeft,
      a \in SuggestionEngineAvgDailySpends, r \in SuggestionEngineBillAmounts }
SuggestionEngineAnalytics ==
  { << >>,
    << [categoryBreakdown |->
          << [category |-> "Food", amount |-> 600,
              percentage |-> [num |-> 60000, den |-> 1000]],
             [category |-> "Transport", amount |-> 400,
              percentage |-> [num |-> 40000, den |-> 1000]] >>] >>,
    << [categoryBreakdown |->
          << [category |-> "Food", amount |-> 400,
              percentage |-> [num |-> 40000, den |-> 1000]],
             [category |-> "Transport", amount |-> 300,
              percentage |-> [num |-> 30000, den |-> 1000]],
             [category |-> "Shopping", amount |-> 300,
              percentage |-> [num |-> 30000, den |-> 1000]] >>] >> }

----------------------------------------------------------------------------
(* Arithmetic helpers *)

Max(a, b) == IF a >= b THEN a ELSE b
Min(a, b) == IF a <= b THEN a ELSE b

\* Math.round(n / d) for d > 0: the nearest integer, halves towards +infinity
RoundDiv(n, d) == (2 * n + d) \div (2 * d)

RECURSIVE SumAmounts(_)
SumAmounts(s) == IF s = <<>> THEN 0 ELSE Head(s).amount + SumAmounts(Tail(s))

\* sum of the amounts of the records at the indices in S
RECURSIVE SumAt(_, _)
SumAt(records, S) ==
  IF S = {} THEN 0
  ELSE LET i == CHOOSE j \in S : TRUE
       IN  records[i].amount + SumAt(records, S \ {i})

----------------------------------------------------------------------------
(* Fuel levels: appStore.ts getFuelLevel / getFuelColor *)

\* mutant: the thresholds are inclusive
getFuelLevel_Inclusive(num, den) ==
  IF num >= 75 * den THEN "full"
  ELSE IF num >= 50 * den THEN "high"
  ELSE IF num >= 25 * den THEN "medium"
  ELSE IF num >= 10 * den THEN "low"
  ELSE IF num >= 5 * den THEN "critical"
  ELSE "empty"

\* percentage is the unrounded quotient num/den (den > 0)
getFuelLevel(num, den) ==
  IF num > 75 * den THEN "full"
  ELSE IF num > 50 * den THEN "high"
  ELSE IF num > 25 * den THEN "medium"
  ELSE IF num > 10 * den THEN "low"
  ELSE IF num > 5 * den THEN "critical"
  ELSE "empty"

getFuelColor(level) ==
  CASE level \in {"full", "high"} -> "#22c55e"
    [] level = "medium" -> "#f59e0b"
    [] level = "low" -> "#ef4444"
    [] level \in {"critical", "empty"} -> "#991b1b"
    [] OTHER -> "#6b7280"

----------------------------------------------------------------------------
(* The calculations of appStore.ts, as functions of the ledger *)

NoSalary == [present |-> FALSE, amount |-> 0, recurringBillsDeducted |-> 0]

\* mutant: the isActive test is forgotten
IsAutoDeducted_NoActive(bill) == bill.autoDeduct

IsAutoDeducted(bill) == bill.isActive /\ bill.autoDeduct

calculateBalance(sal, exps, bills) ==
  IF ~sal.present THEN 0
  ELSE LET totalExpenses == SumAmounts(exps)
           recurringBillsTotal == SumAmounts(SelectSeq(bills, IsAutoDeducted))
       IN  Max(0, sal.amount - totalExpenses - recurringBillsTotal)

ThirtyDays == 30

\* expense.date >= thirtyDaysAgo && expense.source !== 'recurring'; a date read
\* back from storage is an ISO string, which >= turns into NaN: never recent
IsRecent(expense) ==
  /\ ~expense.dateIsString
  /\ expense.age <= ThirtyDays
  /\ expense.source # "recurring"

ZeroSpend == [num |-> 0, den |-> 1]

calculateAverageDailySpend(exps) ==
  IF Len(exps) = 0 THEN ZeroSpend
  ELSE LET recentExpenses == SelectSeq(exps, IsRecent)
       IN  IF Len(recentExpenses) = 0 THEN ZeroSpend
           ELSE LET totalAmount == SumAmounts(recentExpenses)
                    daysDiff == Max(1, ThirtyDays)
                IN  [num |-> totalAmount, den |-> daysDiff]

\* Pairs <<balance, total>> for which the double balance / (total / 30) lies
\* just below the exact integer quotient, so that Math.floor yields one less
\* (computed with IEEE-754 doubles for multiples of 500 up to 20000 / 12000;
\* the other amounts used by CalculationExpenseInputs add no pair).
FloatRoundsBelow ==
  { <<500, 500>>, <<500, 1000>>, <<1000, 500>>, <<1000, 1000>>, <<1000, 2000>>,
    <<2000, 500>>, <<2000, 1000>>, <<2000, 2000>>, <<2000, 4000>>, <<3500, 500>>,
    <<3500, 1000>>, <<4000, 500>>, <<4000, 1000>>, <<4000, 2000>>, <<4000, 4000>>,
    <<4000, 8000>>, <<7000, 500>>, <<7000, 1000>>, <<7000, 2000>>, <<7500, 500>>,
    <<7500, 1000>>, <<8000, 500>>, <<8000, 1000>>, <<8000, 2000>>, <<8000, 4000>>,
    <<8000, 8000>>, <<8500, 500>>, <<8500, 1000>>, <<9500, 9500>>, <<13500, 500>>,
    <<13500, 1000>>, <<14000, 500>>, <<14000, 1000>>, <<14000, 2000>>,
    <<14000, 4000>>, <<14500, 500>>, <<14500, 1000>>, <<15000, 500>>,
    <<15000, 1000>>, <<15000, 2000>>, <<15500, 500>>, <<15500, 1000>>,
    <<16000, 500>>, <<16000, 1000>>, <<16000, 2000>>, <<16000, 4000>>,
    <<16000, 8000>>, <<16500, 500>>, <<16500, 1000>>, <<17000, 500>>,
    <<17000, 1000>>, <<17000, 2000>>, <<19000, 9500>> }

\* Pairs <<balance, total>> for which the double balance / (-total / 30) lies
\* just below the exact (negative) integer quotient (same grid).
FloatRoundsAbove ==
  { <<8500, 8500>>, <<10500, 2500>>, <<10500, 5000>>, <<17000, 8500>> }

\* Math.floor(balance / avg) for avg = num/den # 0 and balance >= 0
FloorDiv(balance, avg) ==
  IF avg.num > 0
  THEN LET q == (balance * avg.den) \div avg.num
       IN  IF avg.den = ThirtyDays /\ <<balance, avg.num>> \in FloatRoundsBelow
           THEN q - 1 ELSE q
  ELSE LET q == 0 - ((balance * avg.den + (0 - avg.num) - 1) \div (0 - avg.num))
       IN  IF avg.den = ThirtyDays /\ <<balance, 0 - avg.num>> \in FloatRoundsAbove
           THEN q - 1 ELSE q

Sentinel == 999

\* GamificationEngine.calculateDaysRemaining(balance, avgDailySpend)
GamificationEngine_calculateDaysRemaining(balance, avgDailySpend) ==
  IF avgDailySpend.num = 0 THEN (IF balance > 0 THEN Sentinel ELSE 0)
  ELSE FloorDiv(balance, avgDailySpend)

\* mutant: the quotient is rounded instead of floored
calculateDaysRemaining_Rounded(sal, exps, bills) ==
  LET balance == calculateBalance(sal, exps, bills)
      avgDailySpend == calculateAverageDailySpend(exps)
  IN  IF avgDailySpend.num = 0 THEN (IF balance > 0 THEN Sentinel ELSE 0)
      ELSE RoundDiv(balance * avgDailySpend.den, avgDailySpend.num)

calculateDaysRemaining(sal, exps, bills) ==
  LET balance == calculateBalance(sal, exps, bills)
      avgDailySpend == calculateAverageDailySpend(exps)
  IN  IF avgDailySpend.num = 0 THEN (IF balance > 0 THEN Sentinel ELSE 0)
      ELSE FloorDiv(balance, avgDailySpend)

\* NotificationService.generateFuelNotifications: reads the stored fuelStatus
\* and hands at most one message to the device notifier
generateFuelNotifications(storedFuelStatus) ==
  CASE storedFuelStatus.level = "empty" ->
         << [title |-> "Fuel Tank Empty!", type |-> "fuel_empty"] >>
    [] storedFuelStatus.level = "critical" ->
         << [title |-> "Critical Fuel Level!", type |-> "fuel_critical"] >>
    [] storedFuelStatus.level = "low" ->
         << [title |-> "Low Fuel Warning!", type |-> "fuel_low"] >>
    [] storedFuelStatus.level \in {"full", "high"} ->
         << [title |-> "Fuel Tank Refueled!", type |-> "fuel_full"] >>
    [] OTHER -> << >>

NoSalaryFuelStatus ==
  [level |-> "empty", percentage |-> 0, daysRemaining |-> 0,
   color |-> getFuelColor("empty"), warningMessage |-> "Please set your salary first"]

\* calculateFuelStatus: the status it returns and what it hands to the
\* notifier on the way (stored is the fuelStatus the store holds at the call)
calculateFuelStatus(sal, exps, bills, stored) ==
  IF ~sal.present THEN [status |-> NoSalaryFuelStatus, sends |-> << >>]
  ELSE LET balance == calculateBalance(sal, exps, bills)
           \* Math.max(0, Math.min(100, balance / salary * 100)) as the quotient num/den
           num == Max(0, Min(100 * sal.amount, 100 * balance))
           den == sal.amount
           level == getFuelLevel(num, den)
           days == calculateDaysRemaining(sal, exps, bills)
           warningMessage ==
             CASE level = "empty" -> "Emergency! Refuel immediately!"
               [] level = "critical" -> "Critical fuel level! Take action soon."
               [] level = "low" -> "Low fuel warning! Plan your expenses carefully."
               [] OTHER -> "undefined"
       IN  [status |-> [level |-> level, percentage |-> RoundDiv(num, den),
                        daysRemaining |-> days, color |-> getFuelColor(level),
                        warningMessage |-> warningMessage],
            sends |-> IF stored.level # level
                      THEN generateFuelNotifications(stored) ELSE << >>]

----------------------------------------------------------------------------
(* Notification store: addNotification and the notification builders.      *)
(* A world w carries what an operation's calls thread through: the         *)
(* notification list and unread count, the id source, the achievements and *)
(* the messages handed to the device notifier so far.                      *)

defaultSettings ==
  [fuelAlerts |-> TRUE, bigSpendAlerts |-> TRUE, achievementAlerts |-> TRUE,
   billReminders |-> TRUE, dailyReminders |-> TRUE,
   quietHours |-> [enabled |-> FALSE, startTime |-> 22 * 60, endTime |-> 8 * 60]]

\* mutant: fuel_empty is not under the fuelAlerts toggle
isTypeEnabled_FuelLowOnly(set, type) ==
  CASE type = "fuel_low" -> set.fuelAlerts
    [] type = "big_spend" -> set.bigSpendAlerts
    [] type = "achievement" -> set.achievementAlerts
    [] type = "bill_due" -> set.billReminders
    [] type = "daily_reminder" -> set.dailyReminders
    [] OTHER -> TRUE

isTypeEnabled(set, type) ==
  CASE type \in {"fuel_low", "fuel_empty"} -> set.fuelAlerts
    [] type = "big_spend" -> set.bigSpendAlerts
    [] type = "achievement" -> set.achievementAlerts
    [] type = "bill_due" -> set.billReminders
    [] type = "daily_reminder" -> set.dailyReminders
    [] OTHER -> TRUE

\* mutant: a window that spans midnight is not recognised
isInQuietHours_NoWrap(set, currentTime) ==
  currentTime >= set.quietHours.startTime /\ currentTime <= set.quietHours.endTime

isInQuietHours(set, currentTime) ==
  LET startTime == set.quietHours.startTime
      endTime == set.quietHours.endTime
  IN  IF startTime < endTime
      THEN currentTime >= startTime /\ currentTime <= endTime
      ELSE currentTime >= startTime \/ currentTime <= endTime

addNotification(w, notificationInput, set, currentTime) ==
  \* every path starts with set({ isLoading: true, error: null })
  IF ~isTypeEnabled(set, notificationInput.type) THEN [w EXCEPT !.wrote = TRUE]
  ELSE IF /\ set.quietHours.enabled
          /\ isInQuietHours(set, currentTime)
          /\ notificationInput.priority # "urgent"
  THEN [w EXCEPT !.wrote = TRUE]
  ELSE LET notification ==
             [id |-> w.nid, type |-> notificationInput.type,
              title |-> notificationInput.title,
              priority |-> notificationInput.priority,
              isRead |-> FALSE, actionData |-> notificationInput.actionData]
       IN  [w EXCEPT !.list = <<notification>> \o w.list,
                     !.unread = w.unread + 1,
                     !.nid = w.nid + 1,
                     !.wrote = TRUE,
                     \* NotificationService.sendImmediateNotification
                     !.sent = Append(w.sent, [title |-> notification.title,
                                              type |-> notification.type])]

createBigSpendNotification(amount, category, previousDays, newDays) ==
  [type |-> "big_spend", title |-> "Big Spend Alert!", priority |-> "high",
   actionData |-> [amount |-> amount, category |-> category,
                   previousDays |-> previousDays, newDays |-> newDays]]

createFuelLowNotification(daysLeft, percentage) ==
  [type |-> "fuel_low", title |-> "Low Fuel Warning!", priority |-> "high",
   actionData |-> [daysLeft |-> daysLeft, percentage |-> percentage]]

createSalaryNotification(amount) ==
  [type |-> "salary_received", title |-> "Salary Received!", priority |-> "normal",
   actionData |-> [amount |-> amount]]

createAchievementNotification(achievementId) ==
  [type |-> "achievement", title |-> "Achievement Unlocked!", priority |-> "normal",
   actionData |-> [title |-> achievementId]]

\* NotificationService.generateBigSpendAlert: compares with the stored balance
generateBigSpendAlert(amount, storedBalance) ==
  IF 10 * amount > storedBalance
  THEN << [title |-> "Big Expense Alert", type |-> "big_spend"] >>
  ELSE << >>

----------------------------------------------------------------------------
(* Achievement service *)

AchievementTargets ==
  ("savings-streak-7" :> 7) @@ ("savings-streak-30" :> 30) @@
  ("budget-master" :> 30) @@ ("category-saver-food" :> 100) @@
  ("fuel-efficient" :> 14) @@ ("emergency-fund-10k" :> 10000) @@
  ("investment-starter" :> 1000) @@ ("bill-tracker-10" :> 10) @@
  ("expense-logger-100" :> 100)

AchievementIds == DOMAIN AchievementTargets

initialAchievements ==
  [a \in AchievementIds |->
     [current |-> 0, target |-> AchievementTargets[a], percentage |-> 0,
      unlocked |-> FALSE]]

unlockAchievement(w, achievementId, set, currentTime) ==
  addNotification([w EXCEPT !.ach[achievementId].unlocked = TRUE],
                  createAchievementNotification(achievementId), set, currentTime)

\* mutant: an unlocked achievement is unlocked again
updateAchievementProgress_NoUnlockedCheck(w, achievementId, increment, set, currentTime) ==
  IF achievementId \notin AchievementIds THEN w
  ELSE LET achievement == w.ach[achievementId]
           newCurrent == Min(achievement.current + increment, achievement.target)
           newPercentage == RoundDiv(100 * newCurrent, achievement.target)
           w1 == [w EXCEPT !.ach[achievementId].current = newCurrent,
                           !.ach[achievementId].percentage = newPercentage]
       IN  IF newPercentage >= 100
           THEN unlockAchievement(w1, achievementId, set, currentTime)
           ELSE w1

\* unlocked stands for "unlockedAt is set"
updateAchievementProgress(w, achievementId, increment, set, currentTime) ==
  IF achievementId \notin AchievementIds THEN w
  ELSE LET achievement == w.ach[achievementId]
           newCurrent == Min(achievement.current + increment, achievement.target)
           newPercentage == RoundDiv(100 * newCurrent, achievement.target)
           w1 == [w EXCEPT !.ach[achievementId].current = newCurrent,
                           !.ach[achievementId].percentage = newPercentage]
       IN  IF newPercentage >= 100 /\ ~achievement.unlocked
           THEN unlockAchievement(w1, achievementId, set, currentTime)
           ELSE w1

\* total spent on the calendar day that lies `day` days back
DaySum(exps, day) ==
  LET OnDay(e) == e.age = day IN SumAmounts(SelectSeq(exps, OnDay))

RECURSIVE SavingsStreakFrom(_, _)
SavingsStreakFrom(exps, i) ==
  IF i >= 30 THEN 0
  ELSE IF DaySum(exps, i) < DaySum(exps, i + 1)
       THEN 1 + SavingsStreakFrom(exps, i + 1)
       ELSE 0

checkSavingsStreak(w, exps, set, currentTime) ==
  LET streak == SavingsStreakFrom(exps, 0)
      w1 == IF streak >= 7
            THEN updateAchievementProgress(w, "savings-streak-7", streak, set, currentTime)
            ELSE w
  IN  IF streak >= 30
      THEN updateAchievementProgress(w1, "savings-streak-30", streak, set, currentTime)
      ELSE w1

checkExpenseLogger(w, exps, set, currentTime) ==
  updateAchievementProgress(w, "expense-logger-100", Len(exps), set, currentTime)

IsActive(bill) == bill.isActive

checkBillTracker(w, bills, set, currentTime) ==
  updateAchievementProgress(w, "bill-tracker-10",
                            Len(SelectSeq(bills, IsActive)), set, currentTime)

checkFuelEfficient(w, storedFuelStatus, set, currentTime) ==
  IF storedFuelStatus.percentage > 50
  THEN updateAchievementProgress(w, "fuel-efficient", 1, set, currentTime)
  ELSE w

checkEmergencyFund(w, storedBalance, set, currentTime) ==
  updateAchievementProgress(w, "emergency-fund-10k", storedBalance, set, currentTime)

IsInvestment(e) == e.category = "Investment"

checkInvestmentStarter(w, exps, set, currentTime) ==
  updateAchievementProgress(w, "investment-starter",
                            SumAmounts(SelectSeq(exps, IsInvestment)), set, currentTime)

\* st is the ledger store's state at the time of the call
runAchievementChecks(w, st, set, currentTime) ==
  LET w1 == checkSavingsStreak(w, st.expenses, set, currentTime)
      w2 == checkExpenseLogger(w1, st.expenses, set, currentTime)
      w3 == checkBillTracker(w2, st.recurringBills, set, currentTime)
      w4 == checkFuelEfficient(w3, st.fuelStatus, set, currentTime)
      w5 == checkEmergencyFund(w4, st.currentBalance, set, currentTime)
  IN  checkInvestmentStarter(w5, st.expenses, set, currentTime)

----------------------------------------------------------------------------
(* GamificationEngine: fuel status and the notifications of a fuel change. *)
(* An optional argument (FuelStatus | null, recentExpense?) is a sequence  *)
(* of length 0 or 1.                                                       *)

GamificationEngine_getFuelWarningMessage(level, days) ==
  CASE level = "empty" -> "Fuel tank is empty! Time to refuel or reduce spending immediately."
    [] level = "critical" -> "Critical fuel level!"
    [] level = "low" -> "Low fuel warning!"
    [] level = "medium" /\ days < 10 -> "Moderate fuel. Plan carefully."
    [] OTHER -> "undefined"

GamificationEngine_calculateFuelStatus(balance, sal, avgDailySpend) ==
  LET num == IF sal = 0 THEN 0 ELSE Max(0, Min(100 * sal, 100 * balance))
      den == IF sal = 0 THEN 1 ELSE sal
      level == getFuelLevel(num, den)
      days == GamificationEngine_calculateDaysRemaining(balance, avgDailySpend)
  IN  [level |-> level, percentage |-> RoundDiv(num, den), daysRemaining |-> days,
       color |-> getFuelColor(level),
       warningMessage |-> GamificationEngine_getFuelWarningMessage(level, days)]

levelOrder == <<"empty", "critical", "low", "medium", "high", "full">>
indexOf(level) == CHOOSE i \in 1..6 : levelOrder[i] = level

\* the notification of a level change, or none: only downgrades notify
createFuelLevelChangeNotification(previousLevel, currentLevel, currentStatus) ==
  IF indexOf(currentLevel) < indexOf(previousLevel) /\ currentLevel \in
       {"empty", "critical", "low", "medium"}
  THEN << [type |-> "fuel_low",
           title |-> CASE currentLevel = "empty" -> "Fuel Empty!"
                       [] currentLevel = "critical" -> "Critical Fuel Level!"
                       [] currentLevel = "low" -> "Low Fuel Warning!"
                       [] OTHER -> "Fuel Level Decreased",
           priority |-> CASE currentLevel = "empty" -> "urgent"
                          [] currentLevel = "medium" -> "normal"
                          [] OTHER -> "high",
           actionData |-> [previousLevel |-> previousLevel,
                           currentLevel |-> currentLevel,
                           percentage |-> currentStatus.percentage,
                           daysRemaining |-> currentStatus.daysRemaining]] >>
  ELSE << >>

GamificationEngine_createBigSpendNotification(expense, previousDays, currentDays) ==
  [type |-> "big_spend", title |-> "Big Spend Alert!", priority |-> "high",
   actionData |-> [expenseId |-> expense.id, amount |-> expense.amount,
                   category |-> expense.category,
                   daysDifference |-> previousDays - currentDays,
                   previousDays |-> previousDays, currentDays |-> currentDays]]

createCriticalFuelNotification(status) ==
  [type |-> "fuel_empty",
   title |-> IF status.level = "empty" THEN "Emergency!" ELSE "Critical Alert!",
   priority |-> "urgent",
   actionData |-> [fuelLevel |-> status.level, percentage |-> status.percentage,
                   daysRemaining |-> status.daysRemaining]]

generateFuelChangeNotifications(previousFuelStatus, currentFuelStatus, recentExpense) ==
  LET levelChange ==
        IF previousFuelStatus # << >> /\ previousFuelStatus[1].level # currentFuelStatus.level
        THEN createFuelLevelChangeNotification(previousFuelStatus[1].level,
                                               currentFuelStatus.level, currentFuelStatus)
        ELSE << >>
      bigSpend ==
        IF /\ recentExpense # << >>
           /\ previousFuelStatus # << >>
           /\ previousFuelStatus[1].daysRemaining - currentFuelStatus.daysRemaining >= 3
        THEN << GamificationEngine_createBigSpendNotification(
                  recentExpense[1], previousFuelStatus[1].daysRemaining,
                  currentFuelStatus.daysRemaining) >>
        ELSE << >>
      criticalWarning ==
        IF currentFuelStatus.level \in {"critical", "empty"}
        THEN << createCriticalFuelNotification(currentFuelStatus) >>
        ELSE << >>
  IN  levelChange \o bigSpend \o criticalWarning

----------------------------------------------------------------------------
(* The ledger store: state and operations of appStore.ts *)

Store ==
  [salary |-> salary, expenses |-> expenses, recurringBills |-> recurringBills,
   currentBalance |-> currentBalance, daysRemaining |-> daysRemaining,
   averageDailySpend |-> averageDailySpend, fuelStatus |-> fuelStatus]

initialState ==
  [salary |-> NoSalary, expenses |-> << >>, recurringBills |-> << >>,
   currentBalance |-> 0, daysRemaining |-> 0, averageDailySpend |-> ZeroSpend,
   fuelStatus |-> [level |-> "empty", percentage |-> 0, daysRemaining |-> 0,
                   color |-> getFuelColor("empty"), warningMessage |-> "undefined"]]

\* { ...record, ...updates }
Merge(record, updates) ==
  [f \in DOMAIN record \cup DOMAIN updates |->
     IF f \in DOMAIN updates THEN updates[f] ELSE record[f]]

\* the values the four calculations return when called on the store state st
Calculated(st) ==
  LET fs == calculateFuelStatus(st.salary, st.expenses, st.recurringBills, st.fuelStatus)
  IN  [currentBalance |-> calculateBalance(st.salary, st.expenses, st.recurringBills),
       daysRemaining |-> calculateDaysRemaining(st.salary, st.expenses, st.recurringBills),
       averageDailySpend |-> calculateAverageDailySpend(st.expenses),
       fuelStatus |-> fs.status,
       sends |-> fs.sends]

\* set({ currentBalance: get().calculateBalance(), daysRemaining: ...,
\*       averageDailySpend: ..., fuelStatus: ... })
RecalculateAll(st) ==
  LET c == Calculated(st)
  IN  [st EXCEPT !.currentBalance = c.currentBalance,
                 !.daysRemaining = c.daysRemaining,
                 !.averageDailySpend = c.averageDailySpend,
                 !.fuelStatus = c.fuelStatus]

\* the same without averageDailySpend (recurring-bill operations)
RecalculateBills(st) ==
  LET c == Calculated(st)
  IN  [st EXCEPT !.currentBalance = c.currentBalance,
                 !.daysRemaining = c.daysRemaining,
                 !.fuelStatus = c.fuelStatus]

\* appStorePersistConfig.partialize
partialize(st) ==
  [salary |-> st.salary, expenses |-> st.expenses, recurringBills |-> st.recurringBills]

\* JSON.stringify of the partialized state: every Date becomes an ISO string
JSON_stringify(state) ==
  [state EXCEPT !.expenses =
     [i \in 1..Len(state.expenses) |-> [state.expenses[i] EXCEPT !.dateIsString = TRUE]]]

\* JSON.parse: the value the text denotes (its dates stay strings)
JSON_parse(text) == text

\* the item after the writes of one handler.  Every set() of the handler
\* writes the partialized state: the first one still holds the ledger the
\* handler started from (before), the later ones the ledger it leaves (after).
\* A failed write leaves the item as it was.
StoredItem(before, after) ==
  CASE device.storageFaults = "none" -> << JSON_stringify(partialize(after)) >>
    [] device.storageFaults = "afterFirst" -> << JSON_stringify(partialize(before)) >>
    [] OTHER -> storage

\* mutant: a failed write is raised to the handler that called set()
saveToStorage_Rethrows(before, after) ==
  IF ~persists THEN [item |-> storage, raised |-> FALSE]
  ELSE [item |-> StoredItem(before, after), raised |-> device.storageFaults # "none"]

\* persistedSet / saveToStorage over one handler: the item it leaves, and
\* whether a failure reached the handler (it is caught and logged)
saveToStorage(before, after) ==
  IF ~persists THEN [item |-> storage, raised |-> FALSE]
  ELSE [item |-> StoredItem(before, after), raised |-> FALSE]

\* notificationStorePersistConfig.partialize
partializeNotifications(state) ==
  [notifications |-> SubSeq(state.notifications, 1, Min(50, Len(state.notifications))),
   settings |-> state.settings]

\* suggestionsStorePersistConfig.partialize (lastGenerated is not kept here)
partializeSuggestions(state) ==
  [suggestionsHistory |->
     SubSeq(state.suggestionsHistory, 1, Min(20, Len(state.suggestionsHistory)))]

\* the item of a store after the writes of one of its handlers: the first
\* set() writes the state the handler started from (before), the last one the
\* state it leaves (after); a failed write leaves the item (current) as it was.
\* The fields kept of a notification or a suggestion are strings, numbers and
\* booleans, which JSON.stringify and JSON.parse give back unchanged.
ItemAfterHandler(current, before, after) ==
  CASE device.storageFaults = "none" -> << after >>
    [] device.storageFaults = "afterFirst" -> << before >>
    [] OTHER -> current

\* the notification store's item after a handler outside that store whose
\* addNotification calls (if any: w.wrote) left w.list; ownFirstWrite tells
\* whether the handler made a write of its own before them
notificationSave(w, set, ownFirstWrite) ==
  IF ~w.wrote \/ ~notificationPersists THEN notificationStorage
  ELSE IF ownFirstWrite /\ device.storageFaults = "afterFirst" THEN notificationStorage
  ELSE ItemAfterHandler(notificationStorage,
         partializeNotifications([notifications |-> notifications, settings |-> set]),
         partializeNotifications([notifications |-> w.list, settings |-> set]))

World(firstId, sends) ==
  [list |-> notifications, unread |-> unreadCount, nid |-> firstId,
   ach |-> achievements, sent |-> sends, wrote |-> FALSE]

\* the new values of all variables after an operation
Commit(op, arg, st, w) ==
  /\ salary' = st.salary
  /\ expenses' = st.expenses
  /\ recurringBills' = st.recurringBills
  /\ currentBalance' = st.currentBalance
  /\ daysRemaining' = st.daysRemaining
  /\ averageDailySpend' = st.averageDailySpend
  /\ fuelStatus' = st.fuelStatus
  /\ LET saved == saveToStorage(Store, st)
     IN  /\ storage' = saved.item
         \* catch (error) { set({ error: errorMessage }) }
         /\ error' = IF saved.raised THEN "Storage error" ELSE "null"
  /\ notifications' = w.list
  /\ unreadCount' = w.unread
  /\ achievements' = w.ach
  /\ nextId' = w.nid
  /\ sentLog' = w.sent
  /\ lastOp' = [op |-> op, arg |-> arg, pre |-> Store,
                preNotifications |-> notifications]
  /\ opCount' = opCount + 1
  /\ notificationStorage' = notificationSave(w, settings, persists)
  /\ UNCHANGED <<settings, timeOfDay, effectDeps, fuelLog, engine, persists, device,
                 notificationPersists, suggestionsStorage, pendingLoad>>
  /\ UNCHANGED suggestionVars

setSalary(amount) ==
  /\ opCount < MaxOps
  /\ LET state == Store
         recurringBillsTotal == SumAmounts(SelectSeq(state.recurringBills, IsAutoDeducted))
         newSalary == [present |-> TRUE, amount |-> amount,
                       recurringBillsDeducted |-> recurringBillsTotal]
         \* the object literal is evaluated before set() stores newSalary
         c == Calculated(state)
         st1 == [state EXCEPT !.salary = newSalary,
                              !.currentBalance = c.currentBalance,
                              !.daysRemaining = c.daysRemaining,
                              !.averageDailySpend = c.averageDailySpend,
                              !.fuelStatus = c.fuelStatus]
         w1 == addNotification(World(nextId, c.sends), createSalaryNotification(amount),
                               settings, timeOfDay)
         w2 == checkEmergencyFund(w1, st1.currentBalance, settings, timeOfDay)
         w3 == runAchievementChecks(w2, st1, settings, timeOfDay)
     IN  Commit("setSalary", [amount |-> amount], st1, w3)

addExpense(expenseInput) ==
  /\ opCount < MaxOps
  /\ LET expense == [id |-> nextId, amount |-> expenseInput.amount,
                     category |-> expenseInput.category, age |-> expenseInput.age,
                     dateIsString |-> FALSE, source |-> expenseInput.source]
         st1 == [Store EXCEPT !.expenses = Append(@, expense)]
         storedBalance == st1.currentBalance
         previousDays == st1.daysRemaining
         c == Calculated(st1)
         st2 == RecalculateAll(st1)
         w0 == World(nextId + 1, c.sends)
         w1 == IF 10 * expense.amount > storedBalance
               THEN LET newDays == calculateDaysRemaining(st2.salary, st2.expenses,
                                                          st2.recurringBills)
                    IN  addNotification(w0,
                          createBigSpendNotification(expense.amount, expense.category,
                                                     previousDays, newDays),
                          settings, timeOfDay)
               ELSE w0
         w2 == [w1 EXCEPT !.sent = @ \o generateBigSpendAlert(expense.amount,
                                                              st2.currentBalance)]
         w3 == checkExpenseLogger(w2, st2.expenses, settings, timeOfDay)
         w4 == runAchievementChecks(w3, st2, settings, timeOfDay)
     IN  Commit("addExpense", expenseInput, st2, w4)

\* Array.prototype.map replacing the records whose id matches
MapMerge(records, id, updates) ==
  [i \in 1..Len(records) |->
     IF records[i].id = id THEN Merge(records[i], updates) ELSE records[i]]

updateExpense(id, updates) ==
  /\ opCount < MaxOps
  /\ LET st1 == [Store EXCEPT !.expenses = MapMerge(@, id, updates)]
         c == Calculated(st1)
     IN  Commit("updateExpense", [id |-> id, updates |-> updates],
                RecalculateAll(st1), World(nextId, c.sends))

deleteExpense(id) ==
  /\ opCount < MaxOps
  /\ LET Keep(expense) == expense.id # id
         st1 == [Store EXCEPT !.expenses = SelectSeq(@, Keep)]
         c == Calculated(st1)
     IN  Commit("deleteExpense", [id |-> id],
                RecalculateAll(st1), World(nextId, c.sends))

addRecurringBill(billInput) ==
  /\ opCount < MaxOps
  /\ LET bill == [id |-> nextId, amount |-> billInput.amount,
                  autoDeduct |-> billInput.autoDeduct, isActive |-> TRUE]
         st1 == [Store EXCEPT !.recurringBills = Append(@, bill)]
         c == Calculated(st1)
         st2 == IF bill.autoDeduct THEN RecalculateBills(st1) ELSE st1
         w0 == World(nextId + 1, IF bill.autoDeduct THEN c.sends ELSE << >>)
         w1 == checkBillTracker(w0, st2.recurringBills, settings, timeOfDay)
         w2 == runAchievementChecks(w1, st2, settings, timeOfDay)
     IN  Commit("addRecurringBill", billInput, st2, w2)

updateRecurringBill(id, updates) ==
  /\ opCount < MaxOps
  /\ LET st1 == [Store EXCEPT !.recurringBills = MapMerge(@, id, updates)]
         c == Calculated(st1)
     IN  Commit("updateRecurringBill", [id |-> id, updates |-> updates],
                RecalculateBills(st1), World(nextId, c.sends))

deleteRecurringBill(id) ==
  /\ opCount < MaxOps
  /\ LET Keep(bill) == bill.id # id
         st1 == [Store EXCEPT !.recurringBills = SelectSeq(@, Keep)]
         c == Calculated(st1)
     IN  Commit("deleteRecurringBill", [id |-> id],
                RecalculateBills(st1), World(nextId, c.sends))

----------------------------------------------------------------------------
(* The state machine *)

Ids(records) == {records[i].id : i \in 1..Len(records)}

Init ==
  /\ salary = initialState.salary
  /\ expenses = initialState.expenses
  /\ recurringBills = initialState.recurringBills
  /\ currentBalance = initialState.currentBalance
  /\ daysRemaining = initialState.daysRemaining
  /\ averageDailySpend = initialState.averageDailySpend
  /\ fuelStatus = initialState.fuelStatus
  /\ error = "null"
  /\ notifications = << >>
  /\ unreadCount = 0
  /\ settings = defaultSettings
  /\ timeOfDay = 12 * 60
  /\ achievements = initialAchievements
  /\ nextId = 1
  /\ sentLog = << >>
  /\ lastOp = [op |-> "init", arg |-> [none |-> TRUE], pre |-> initialState,
               preNotifications |-> << >>]
  /\ opCount = 0
  /\ effectDeps = << >>
  /\ fuelLog = << >>
  /\ engine = [previous |-> << >>, produced |-> << >>, log |-> << >>, calls |-> 0]
  /\ suggestions = << >>
  /\ suggestionsHistory = << >>
  /\ isGenerating = FALSE
  /\ suggestionsError = "null"
  /\ inFlight = << >>
  /\ suggestionOps = 0
  /\ storage = << >>
  /\ persists = TRUE
  /\ device = [storageFaults |-> "none", notifierFails |-> FALSE]
  /\ notificationStorage = << >>
  /\ notificationPersists = TRUE
  /\ suggestionsStorage = << >>
  /\ pendingLoad = << >>

Next ==
  \/ \E amount \in Salaries : setSalary(amount)
  \/ \E expenseInput \in ExpenseInputs : addExpense(expenseInput)
  \/ \E id \in Ids(expenses) \cup {UnknownId}, updates \in ExpensePatches :
       updateExpense(id, updates)
  \/ \E id \in Ids(expenses) \cup {UnknownId} : deleteExpense(id)
  \/ \E billInput \in BillInputs : addRecurringBill(billInput)
  \/ \E id \in Ids(recurringBills) \cup {UnknownId}, updates \in BillPatches :
       updateRecurringBill(id, updates)
  \/ \E id \in Ids(recurringBills) \cup {UnknownId} : deleteRecurringBill(id)

Spec == Init /\ [][Next]_vars

----------------------------------------------------------------------------
(* The ledger with the tab layout mounted (NotificationHandler's fuel      *)
(* effect runs after a render in which one of its dependencies changed),   *)
(* and a caller that recomputes the fuel status with the GamificationEngine*)
(* and keeps the last status as the previous one.                          *)

FuelNotificationTypes == {"fuel_low", "fuel_empty", "fuel_critical", "fuel_full"}

\* number of fuel notifications in a sequence of notifications or of sends
FuelCount(list) == Cardinality({i \in DOMAIN list : list[i].type \in FuelNotificationTypes})

\* the last two entries of log followed by entry
LastTwo(log, entry) ==
  IF Len(log) = 0 THEN <<entry>> ELSE <<log[Len(log)], entry>>

\* [fuelStatus.level, daysRemaining, fuelStatus.percentage]
FuelDeps == <<fuelStatus.level, daysRemaining, fuelStatus.percentage>>

EffectPending == IF effectDeps = << >> THEN TRUE ELSE effectDeps[1] # FuelDeps

\* useEffect(() => {...}, [fuelStatus.level, daysRemaining, fuelStatus.percentage])
fuelEffect ==
  /\ EffectPending
  /\ LET w0 == World(nextId, << >>)
         w1 == IF fuelStatus.level \in {"empty", "critical", "low"}
               THEN addNotification(w0,
                      createFuelLowNotification(daysRemaining, fuelStatus.percentage),
                      settings, timeOfDay)
               ELSE w0
         \* what the recomputation handed to the notifier, and what the effect adds
         produced == FuelCount(sentLog) + (Len(w1.list) - Len(notifications))
     IN  /\ notifications' = w1.list
         /\ unreadCount' = w1.unread
         /\ nextId' = w1.nid
         /\ sentLog' = w1.sent
         /\ effectDeps' = <<FuelDeps>>
         /\ fuelLog' = LastTwo(fuelLog, [level |-> fuelStatus.level,
                                         produced |-> produced])
         /\ lastOp' = [op |-> "fuelEffect", arg |-> [none |-> TRUE], pre |-> Store,
                       preNotifications |-> notifications]
         /\ notificationStorage' = notificationSave(w1, settings, FALSE)
  /\ UNCHANGED <<salary, expenses, recurringBills, currentBalance, daysRemaining,
                 averageDailySpend, fuelStatus, error, settings, timeOfDay,
                 achievements, opCount, engine>>
  /\ UNCHANGED suggestionVars
  /\ UNCHANGED deviceVars
  /\ UNCHANGED <<notificationPersists, suggestionsStorage, pendingLoad>>

\* current = calculateFuelStatus(...);
\* generateFuelChangeNotifications(previous, current, recentExpense); previous = current
engineRecompute(balance, sal, avgDailySpend, recentExpense) ==
  /\ engine.calls < MaxEngineCalls
  /\ LET current == GamificationEngine_calculateFuelStatus(balance, sal, avgDailySpend)
         produced == generateFuelChangeNotifications(engine.previous, current,
                                                     recentExpense)
     IN  engine' = [previous |-> <<current>>,
                    produced |-> produced,
                    log |-> LastTwo(engine.log, [level |-> current.level,
                                                 produced |-> FuelCount(produced)]),
                    calls |-> engine.calls + 1]
  /\ UNCHANGED <<salary, expenses, recurringBills, currentBalance, daysRemaining,
                 averageDailySpend, fuelStatus, error, notifications, unreadCount,
                 settings, timeOfDay, achievements, nextId, sentLog, lastOp, opCount,
                 effectDeps, fuelLog>>
  /\ UNCHANGED suggestionVars
  /\ UNCHANGED deviceVars
  /\ UNCHANGED restartVars

NextMounted ==
  \/ \E amount \in MountedSalaries : ~EffectPending /\ setSalary(amount)
  \/ \E expenseInput \in MountedExpenseInputs : ~EffectPending /\ addExpense(expenseInput)
  \/ \E id \in Ids(expenses) : ~EffectPending /\ deleteExpense(id)
  \/ fuelEffect
  \/ \E balance \in EngineBalances, recentExpense \in EngineRecentExpenses :
       engineRecompute(balance, EngineSalary, EngineAvgDailySpend, recentExpense)

SpecMounted == Init /\ [][NextMounted]_vars

----------------------------------------------------------------------------
(* The notification store driven directly: its operations as the callers  *)
(* (screens, tests) invoke them.  The ledger is left alone.                *)

\* the new values of all variables after an operation of the notification store
StoreCommit(op, arg, list, unread, set, nid, sent, now) ==
  /\ notifications' = list
  /\ unreadCount' = unread
  /\ settings' = set
  /\ nextId' = nid
  /\ sentLog' = sent
  /\ timeOfDay' = now
  /\ error' = "null"
  /\ lastOp' = [op |-> op, arg |-> arg, pre |-> Store,
                preNotifications |-> notifications, preUnread |-> unreadCount]
  /\ opCount' = opCount + 1
  /\ notificationStorage' =
       IF ~notificationPersists THEN notificationStorage
       ELSE ItemAfterHandler(notificationStorage,
              partializeNotifications([notifications |-> notifications,
                                       settings |-> settings]),
              partializeNotifications([notifications |-> list, settings |-> set]))
  /\ UNCHANGED <<salary, expenses, recurringBills, currentBalance, daysRemaining,
                 averageDailySpend, fuelStatus, achievements, effectDeps, fuelLog,
                 engine>>
  /\ UNCHANGED suggestionVars
  /\ UNCHANGED deviceVars
  /\ UNCHANGED <<notificationPersists, suggestionsStorage, pendingLoad>>

\* mutant: a failing notifier takes the notification out of the list again
addNotificationAt_RollsBack(notificationInput, now) ==
  LET w == addNotification(World(nextId, << >>), notificationInput, settings, now)
  IN  IF device.notifierFails
      THEN StoreCommit("addNotification", notificationInput,
                       notifications, unreadCount, settings, w.nid, w.sent, now)
      ELSE StoreCommit("addNotification", notificationInput,
                       w.list, w.unread, settings, w.nid, w.sent, now)

\* addNotification(notificationInput) called when the clock shows now
addNotificationAt(notificationInput, now) ==
  LET w == addNotification(World(nextId, << >>), notificationInput, settings, now)
  IN  StoreCommit("addNotification", notificationInput,
                  w.list, w.unread, settings, w.nid, w.sent, now)

\* state.notifications.find(n => n.id === id), as a sequence of length 0 or 1
find(list, id) ==
  LET Matches(n) == n.id = id
      found == SelectSeq(list, Matches)
  IN  IF found = << >> THEN << >> ELSE << found[1] >>

\* mutant: an already-read notification is marked again
markAsRead_NoReadCheck(id) ==
  LET notification == find(notifications, id)
  IN  IF notification = << >> THEN
        StoreCommit("markAsRead", [id |-> id], notifications, unreadCount,
                    settings, nextId, << >>, timeOfDay)
      ELSE
        StoreCommit("markAsRead", [id |-> id],
                    MapMerge(notifications, id, [isRead |-> TRUE]),
                    Max(0, unreadCount - 1), settings, nextId, << >>, timeOfDay)

markAsRead(id) ==
  LET notification == find(notifications, id)
  IN  IF notification = << >> THEN
        StoreCommit("markAsRead", [id |-> id], notifications, unreadCount,
                    settings, nextId, << >>, timeOfDay)
      ELSE IF notification[1].isRead THEN
        StoreCommit("markAsRead", [id |-> id], notifications, unreadCount,
                    settings, nextId, << >>, timeOfDay)
      ELSE
        StoreCommit("markAsRead", [id |-> id],
                    MapMerge(notifications, id, [isRead |-> TRUE]),
                    Max(0, unreadCount - 1), settings, nextId, << >>, timeOfDay)

markAllAsRead ==
  StoreCommit("markAllAsRead", [none |-> TRUE],
              [i \in 1..Len(notifications) |-> [notifications[i] EXCEPT !.isRead = TRUE]],
              0, settings, nextId, << >>, timeOfDay)

deleteNotification(id) ==
  LET notification == find(notifications, id)
      wasUnread == IF notification = << >> THEN FALSE ELSE ~notification[1].isRead
      Keep(n) == n.id # id
  IN  StoreCommit("deleteNotification", [id |-> id],
                  SelectSeq(notifications, Keep),
                  IF wasUnread THEN Max(0, unreadCount - 1) ELSE unreadCount,
                  settings, nextId, << >>, timeOfDay)

clearAllNotifications ==
  StoreCommit("clearAllNotifications", [none |-> TRUE],
              << >>, 0, settings, nextId, << >>, timeOfDay)

\* settings: { ...state.settings, ...newSettings }
updateSettings(newSettings) ==
  StoreCommit("updateSettings", newSettings, notifications, unreadCount,
              Merge(settings, newSettings), nextId, << >>, timeOfDay)

\* reading and clearing the inbox
NextInbox ==
  \/ \E notificationInput \in InboxInputs :
       opCount < MaxInboxOps /\ addNotificationAt(notificationInput, timeOfDay)
  \/ \E id \in Ids(notifications) \cup {UnknownId} :
       opCount < MaxInboxOps /\ markAsRead(id)
  \/ opCount < MaxInboxOps /\ markAllAsRead
  \/ \E id \in Ids(notifications) \cup {UnknownId} :
       opCount < MaxInboxOps /\ deleteNotification(id)
  \/ opCount < MaxInboxOps /\ clearAllNotifications

SpecInbox == Init /\ [][NextInbox]_vars

\* settings and the delivery of new notifications
NextDelivery ==
  \/ \E newSettings \in SettingsPatches :
       opCount < MaxDeliveryOps /\ updateSettings(newSettings)
  \/ \E notificationInput \in DeliveryInputs, now \in ClockTimes :
       opCount < MaxDeliveryOps /\ addNotificationAt(notificationInput, now)

SpecDelivery == Init /\ [][NextDelivery]_vars

----------------------------------------------------------------------------
(* The suggestions store (useSuggestionsStore), the AI service it awaits   *)
(* and the ledger's getFinancialContext / getSpendingAnalytics that supply *)
(* its arguments.  confidenceScore is in hundredths.  A generateSuggestions*)
(* call runs up to its await, stays in inFlight while the service's promise*)
(* is pending, and continues when the promise settles.                     *)

\* the entries of getSpendingAnalytics() that the suggestions use
getSpendingAnalytics(st) ==
  LET NonRecurring(expense) == expense.source # "recurring"
      exps == SelectSeq(st.expenses, NonRecurring)
      categories == {exps[i].category : i \in DOMAIN exps}
      amount(c) == SumAt(exps, {i \in DOMAIN exps : exps[i].category = c})
      first(c) == CHOOSE i \in DOMAIN exps :
                    /\ exps[i].category = c
                    /\ \A j \in DOMAIN exps : exps[j].category = c => i <= j
      \* .sort((a, b) => b.amount - a.amount) of the entries in insertion order
      position(c) == 1 + Cardinality({d \in categories :
                            \/ amount(d) > amount(c)
                            \/ amount(d) = amount(c) /\ first(d) < first(c)})
      total == SumAt(exps, DOMAIN exps)
      categoryBreakdown ==
        [k \in 1..Cardinality(categories) |->
           LET c == CHOOSE d \in categories : position(d) = k
           IN  [category |-> c, amount |-> amount(c),
                \* percentage as the quotient num/den
                percentage |-> [num |-> 100 * amount(c), den |-> total]]]
  IN  [averageDailySpend |-> calculateAverageDailySpend(st.expenses),
       categoryBreakdown |-> categoryBreakdown,
       topCategories |-> [k \in 1..Min(3, Len(categoryBreakdown)) |->
                            categoryBreakdown[k].category]]

getFinancialContext(st) ==
  LET analytics == getSpendingAnalytics(st)
  IN  [balance |-> calculateBalance(st.salary, st.expenses, st.recurringBills),
       daysLeft |-> calculateDaysRemaining(st.salary, st.expenses, st.recurringBills),
       salary |-> st.salary.amount,
       avgDailySpend |-> analytics.averageDailySpend,
       topCategories |-> analytics.topCategories,
       totalExpenses |-> SumAmounts(st.expenses),
       recurringBillsAmount |-> SumAmounts(SelectSeq(st.recurringBills, IsActive))]

SuggestionInput(type, title, priority, confidenceScore) ==
  [type |-> type, title |-> title, priority |-> priority,
   impact |-> [confidenceScore |-> confidenceScore]]

\* generateRuleBasedSuggestions(context)
generateRuleBasedSuggestions(context) ==
  (IF 10 * context.balance < context.salary
   THEN << SuggestionInput("emergency", "Emergency Mode", "urgent", 90) >>
   ELSE << >>)
  \o (IF 2 * context.balance > context.salary /\ context.daysLeft > 20
      THEN << SuggestionInput("investment", "Investment Opportunity", "normal", 70) >>
      ELSE << >>)
  \o (IF context.daysLeft > 25
      THEN << SuggestionInput("savings", "Great Job!", "low", 80) >>
      ELSE << >>)
  \o (IF context.daysLeft < 10 /\ context.daysLeft > 0
      THEN << SuggestionInput("budget_adjustment", "Budget Alert", "high", 85) >>
      ELSE << >>)
  \o (IF Len(context.topCategories) > 0
      THEN << SuggestionInput("category_optimization", "Category Focus", "normal", 60) >>
      ELSE << >>)
  \o (IF 10 * context.recurringBillsAmount > 4 * context.salary
      THEN << SuggestionInput("recurring_bill", "Bill Review", "normal", 75) >>
      ELSE << >>)

\* MockAIService.generateSuggestions(context, analytics): what its promise resolves to
MockAIService_generateSuggestions(context, analytics) ==
  (IF context.daysLeft < 10
   THEN << SuggestionInput("fuel_warning", "AI-Powered Fuel Warning", "high", 85) >>
   ELSE << >>)
  \o (IF analytics = << >> THEN << >>
      ELSE IF Len(analytics[1].categoryBreakdown) = 0 THEN << >>
      ELSE IF analytics[1].categoryBreakdown[1].percentage.num >
                30 * analytics[1].categoryBreakdown[1].percentage.den
      THEN << SuggestionInput("category_optimization", "AI Category Optimization",
                              "normal", 75) >>
      ELSE << >>)
  \o << SuggestionInput("investment", "AI Investment Insight", "normal", 70) >>

\* the Suggestion that addSuggestion stores for an input
Suggestion(id, suggestionInput) ==
  [id |-> id, type |-> suggestionInput.type, title |-> suggestionInput.title,
   priority |-> suggestionInput.priority, impact |-> suggestionInput.impact,
   isApplied |-> FALSE, isDismissed |-> FALSE]

\* allSuggestions.forEach(suggestion => get().addSuggestion(suggestion))
addSuggestions(list, firstId, inputs) ==
  list \o [k \in 1..Len(inputs) |-> Suggestion(firstId + k - 1, inputs[k])]

\* the new values of all variables after a step of the suggestions store
SuggestionsCommit(op, arg, list, history, generating, err, calls, nid) ==
  /\ suggestions' = list
  /\ suggestionsHistory' = history
  /\ isGenerating' = generating
  /\ suggestionsError' = err
  /\ inFlight' = calls
  /\ nextId' = nid
  /\ lastOp' = [op |-> op, arg |-> arg, pre |-> Store,
                preNotifications |-> notifications, preSuggestions |-> suggestions]
  /\ UNCHANGED <<salary, expenses, recurringBills, currentBalance, daysRemaining,
                 averageDailySpend, fuelStatus, error, notifications, unreadCount,
                 settings, timeOfDay, achievements, sentLog, opCount, effectDeps,
                 fuelLog, engine>>
  /\ suggestionsStorage' =
       ItemAfterHandler(suggestionsStorage,
         partializeSuggestions([suggestionsHistory |-> suggestionsHistory]),
         partializeSuggestions([suggestionsHistory |-> history]))
  /\ UNCHANGED deviceVars
  /\ UNCHANGED <<notificationStorage, notificationPersists, pendingLoad>>

IsClosed(s) == s.isApplied \/ s.isDismissed

\* generateSuggestions(context, analytics) up to its await; the service will
\* settle the call as outcome says
generateSuggestions(context, analytics, outcome) ==
  /\ suggestionOps' = suggestionOps + 1
  /\ LET call == [context |-> context, analytics |-> analytics,
                  ruleBasedSuggestions |-> generateRuleBasedSuggestions(context),
                  outcome |-> outcome, startedAt |-> opCount]
     IN  SuggestionsCommit("generateSuggestions", call,
                           SelectSeq(suggestions, IsClosed), suggestionsHistory,
                           TRUE, "null", Append(inFlight, call), nextId)

Without(calls, i) == SubSeq(calls, 1, i - 1) \o SubSeq(calls, i + 1, Len(calls))

\* the awaited promise of call i resolves and generateSuggestions continues
aiServiceResolves(i) ==
  /\ inFlight[i].outcome = "resolves"
  /\ UNCHANGED suggestionOps
  /\ LET call == inFlight[i]
         aiSuggestions == MockAIService_generateSuggestions(call.context, call.analytics)
         allSuggestions == aiSuggestions \o call.ruleBasedSuggestions
     IN  SuggestionsCommit("aiServiceResolves", call,
                           addSuggestions(suggestions, nextId, allSuggestions),
                           suggestionsHistory, FALSE, "null", Without(inFlight, i),
                           nextId + Len(allSuggestions))

\* the awaited promise of call i rejects and the catch block runs
aiServiceRejects(i) ==
  /\ inFlight[i].outcome = "rejects"
  /\ UNCHANGED suggestionOps
  /\ SuggestionsCommit("aiServiceRejects", inFlight[i], suggestions,
                       suggestionsHistory, FALSE, "Failed to generate suggestions",
                       Without(inFlight, i), nextId)

applySuggestion(id) ==
  /\ suggestionOps' = suggestionOps + 1
  /\ LET suggestion == find(suggestions, id)
     IN  IF suggestion = << >> THEN
           SuggestionsCommit("applySuggestion", [id |-> id], suggestions,
                             suggestionsHistory, isGenerating, "null", inFlight, nextId)
         ELSE
           LET updatedSuggestion == [suggestion[1] EXCEPT !.isApplied = TRUE]
           IN  SuggestionsCommit("applySuggestion", [id |-> id],
                 [k \in 1..Len(suggestions) |->
                    IF suggestions[k].id = id THEN updatedSuggestion ELSE suggestions[k]],
                 Append(suggestionsHistory, updatedSuggestion),
                 isGenerating, "null", inFlight, nextId)

dismissSuggestion(id) ==
  /\ suggestionOps' = suggestionOps + 1
  /\ LET suggestion == find(suggestions, id)
     IN  IF suggestion = << >> THEN
           SuggestionsCommit("dismissSuggestion", [id |-> id], suggestions,
                             suggestionsHistory, isGenerating, "null", inFlight, nextId)
         ELSE
           LET updatedSuggestion == [suggestion[1] EXCEPT !.isDismissed = TRUE]
           IN  SuggestionsCommit("dismissSuggestion", [id |-> id],
                 [k \in 1..Len(suggestions) |->
                    IF suggestions[k].id = id THEN updatedSuggestion ELSE suggestions[k]],
                 Append(suggestionsHistory, updatedSuggestion),
                 isGenerating, "null", inFlight, nextId)

\* addSuggestion(suggestionInput)
addSuggestion(suggestionInput) ==
  /\ suggestionOps' = suggestionOps + 1
  /\ SuggestionsCommit("addSuggestion", suggestionInput,
                       Append(suggestions, Suggestion(nextId, suggestionInput)),
                       suggestionsHistory, isGenerating, "null", inFlight, nextId + 1)

NextSuggestions ==
  \/ \E amount \in SuggestionSalaries :
       opCount < MaxLedgerOps /\ setSalary(amount)
  \/ \E expenseInput \in SuggestionExpenseInputs :
       opCount < MaxLedgerOps /\ addExpense(expenseInput)
  \/ \E outcome \in ServiceOutcomes :
       /\ suggestionOps < MaxSuggestionOps
       /\ generateSuggestions(getFinancialContext(Store),
                              << getSpendingAnalytics(Store) >>, outcome)
  \/ \E i \in DOMAIN inFlight : aiServiceResolves(i)
  \/ \E i \in DOMAIN inFlight : aiServiceRejects(i)
  \/ \E id \in Ids(suggestions) \cup {UnknownId} :
       suggestionOps < MaxSuggestionOps /\ applySuggestion(id)
  \/ \E id \in Ids(suggestions) \cup {UnknownId} :
       suggestionOps < MaxSuggestionOps /\ dismissSuggestion(id)

SpecSuggestions == Init /\ [][NextSuggestions]_vars

----------------------------------------------------------------------------
(* The expense ledger under add, update and delete, with patches that name *)
(* the id of an expense.                                                   *)

NextPatches ==
  \/ \E expenseInput \in PatchExpenseInputs :
       opCount < MaxPatchOps /\ addExpense(expenseInput)
  \/ \E id \in Ids(expenses) \cup {UnknownId}, updates \in IdPatches :
       opCount < MaxPatchOps /\ updateExpense(id, updates)
  \/ \E id \in Ids(expenses) : opCount < MaxPatchOps /\ deleteExpense(id)

SpecPatches == Init /\ [][NextPatches]_vars

----------------------------------------------------------------------------
(* The suggestion history: a client adds one suggestion and then applies   *)
(* and dismisses it, any number of times; it dismisses only a suggestion   *)
(* that is not dismissed yet.                                              *)

NextHistory ==
  \/ \E suggestionInput \in HistorySuggestionInputs :
       suggestions = << >> /\ addSuggestion(suggestionInput)
  \/ \E id \in Ids(suggestions) :
       suggestionOps < MaxHistoryOps /\ applySuggestion(id)
  \/ \E id \in Ids(suggestions) :
       /\ suggestionOps < MaxHistoryOps
       /\ ~find(suggestions, id)[1].isDismissed
       /\ dismissSuggestion(id)

SpecHistory == Init /\ [][NextHistory]_vars

----------------------------------------------------------------------------
(* The achievement service driven by the ledger's operations and by direct *)
(* calls of updateAchievementProgress.  The notification settings stay the *)
(* default ones, so every notification an unlock submits is stored.        *)

\* AchievementService.updateAchievementProgress(achievementId, increment)
progressCall(achievementId, increment) ==
  /\ opCount < MaxAchievementOps
  /\ LET w == updateAchievementProgress(World(nextId, << >>), achievementId, increment,
                                        settings, timeOfDay)
     IN  /\ notifications' = w.list
         /\ unreadCount' = w.unread
         /\ achievements' = w.ach
         /\ nextId' = w.nid
         /\ sentLog' = w.sent
         /\ lastOp' = [op |-> "updateAchievementProgress",
                       arg |-> [achievementId |-> achievementId, increment |-> increment],
                       pre |-> Store, preNotifications |-> notifications,
                       preAchievements |-> achievements]
         /\ opCount' = opCount + 1
         /\ notificationStorage' = notificationSave(w, settings, FALSE)
  /\ UNCHANGED <<salary, expenses, recurringBills, currentBalance, daysRemaining,
                 averageDailySpend, fuelStatus, error, settings, timeOfDay,
                 effectDeps, fuelLog, engine>>
  /\ UNCHANGED suggestionVars
  /\ UNCHANGED deviceVars
  /\ UNCHANGED <<notificationPersists, suggestionsStorage, pendingLoad>>

NextAchievements ==
  \/ \E amount \in AchievementSalaries :
       opCount < MaxAchievementOps /\ setSalary(amount)
  \/ \E expenseInput \in AchievementExpenseInputs :
       opCount < MaxAchievementOps /\ addExpense(expenseInput)
  \/ \E achievementId \in ProgressIds, increment \in ProgressIncrements :
       progressCall(achievementId, increment)

SpecAchievements == Init /\ [][NextAchievements]_vars

----------------------------------------------------------------------------
(* Persistence and delivery on a device whose storage or notifier may      *)
(* fail.  loadPersistedState is the app store's persist initializer run for*)
(* a newly created store (the user does nothing before the load is done);  *)
(* the other stores have items of their own and are left alone.            *)

\* AsyncStorage.setItem starts or stops failing
storageCondition(faults) ==
  /\ device.storageFaults # faults
  /\ device' = [device EXCEPT !.storageFaults = faults]
  /\ UNCHANGED <<salary, expenses, recurringBills, currentBalance, daysRemaining,
                 averageDailySpend, fuelStatus, error, notifications, unreadCount,
                 settings, timeOfDay, achievements, nextId, sentLog, lastOp, opCount,
                 effectDeps, fuelLog, engine, storage, persists>>
  /\ UNCHANGED suggestionVars
  /\ UNCHANGED restartVars

\* Notifications.scheduleNotificationAsync starts or stops failing
notifierCondition(fails) ==
  /\ device.notifierFails # fails
  /\ device' = [device EXCEPT !.notifierFails = fails]
  /\ UNCHANGED <<salary, expenses, recurringBills, currentBalance, daysRemaining,
                 averageDailySpend, fuelStatus, error, notifications, unreadCount,
                 settings, timeOfDay, achievements, nextId, sentLog, lastOp, opCount,
                 effectDeps, fuelLog, engine, storage, persists>>
  /\ UNCHANGED suggestionVars
  /\ UNCHANGED restartVars

\* persist(config, options)(set, get, api) for a new app store:
\* initialState = config(set, ...) holds the initial values and the actions
\* built over the plain set; a stored item is merged over it
loadPersistedState ==
  /\ opCount < MaxDeviceOps
  /\ LET persistedValue == storage
         restored ==
           IF persistedValue = << >> THEN initialState
           ELSE LET parsedState == JSON_parse(persistedValue[1])
                    stateToRestore == partialize(parsedState)
                IN  Merge(initialState, stateToRestore)
     IN  /\ salary' = restored.salary
         /\ expenses' = restored.expenses
         /\ recurringBills' = restored.recurringBills
         /\ currentBalance' = restored.currentBalance
         /\ daysRemaining' = restored.daysRemaining
         /\ averageDailySpend' = restored.averageDailySpend
         /\ fuelStatus' = restored.fuelStatus
         /\ error' = "null"
         \* set({ ...initialState, ...stateToRestore }) replaces the actions
         \* built over persistedSet by those of initialState
         /\ persists' = (persistedValue = << >>)
         /\ lastOp' = [op |-> "loadPersistedState", arg |-> [item |-> persistedValue],
                       pre |-> Store, preNotifications |-> notifications]
         /\ opCount' = opCount + 1
  /\ UNCHANGED <<notifications, unreadCount, settings, timeOfDay, achievements,
                 nextId, sentLog, effectDeps, fuelLog, engine, storage, device>>
  /\ UNCHANGED suggestionVars
  /\ UNCHANGED restartVars

NextDevice ==
  \/ \E faults \in StorageFaults : storageCondition(faults)
  \/ \E fails \in BOOLEAN : notifierCondition(fails)
  \/ \E amount \in DeviceSalaries : opCount < MaxDeviceOps /\ setSalary(amount)
  \/ \E expenseInput \in DeviceExpenseInputs :
       opCount < MaxDeviceOps /\ addExpense(expenseInput)
  \/ \E notificationInput \in DeviceNotificationInputs :
       opCount < MaxDeviceOps /\ addNotificationAt(notificationInput, timeOfDay)
  \/ loadPersistedState

SpecDevice == Init /\ [][NextDevice]_vars

----------------------------------------------------------------------------
(* Restarts of the app.  Creating a store issues the getItem of its initial *)
(* load, which is answered later: the user can act on the new store in      *)
(* between.  The read was issued before any write of the new store, so it   *)
(* is answered with the item present at creation.  Each store is created    *)
(* and loaded on its own; for the notification store the load is taken in   *)
(* one step with the creation.                                              *)

\* create(persist(config, appStorePersistConfig)): the state is the initial one,
\* the actions are those built over persistedSet, the load is pending
createAppStore ==
  /\ opCount < MaxRestartOps
  /\ pendingLoad = << >>
  /\ salary' = initialState.salary
  /\ expenses' = initialState.expenses
  /\ recurringBills' = initialState.recurringBills
  /\ currentBalance' = initialState.currentBalance
  /\ daysRemaining' = initialState.daysRemaining
  /\ averageDailySpend' = initialState.averageDailySpend
  /\ fuelStatus' = initialState.fuelStatus
  /\ error' = "null"
  /\ persists' = TRUE
  /\ pendingLoad' = << [persistedValue |-> storage] >>
  /\ lastOp' = [op |-> "createAppStore", arg |-> [none |-> TRUE], pre |-> Store,
                preNotifications |-> notifications]
  /\ opCount' = opCount + 1
  /\ UNCHANGED <<notifications, unreadCount, settings, timeOfDay, achievements,
                 nextId, sentLog, effectDeps, fuelLog, engine, storage, device,
                 notificationStorage, notificationPersists, suggestionsStorage>>
  /\ UNCHANGED suggestionVars

\* loadPersistedState continues after `await storage.getItem(name)`
loadCompletes ==
  /\ pendingLoad # << >>
  /\ LET persistedValue == pendingLoad[1].persistedValue
         restored ==
           IF persistedValue = << >> THEN Store
           ELSE LET parsedState == JSON_parse(persistedValue[1])
                    stateToRestore == partialize(parsedState)
                IN  Merge(initialState, stateToRestore)
     IN  /\ salary' = restored.salary
         /\ expenses' = restored.expenses
         /\ recurringBills' = restored.recurringBills
         /\ currentBalance' = restored.currentBalance
         /\ daysRemaining' = restored.daysRemaining
         /\ averageDailySpend' = restored.averageDailySpend
         /\ fuelStatus' = restored.fuelStatus
         /\ error' = IF persistedValue = << >> THEN error ELSE "null"
         \* set({ ...initialState, ...stateToRestore }) replaces the actions
         \* built over persistedSet by those of initialState
         /\ persists' = IF persistedValue = << >> THEN persists ELSE FALSE
         /\ lastOp' = [op |-> "loadCompletes", arg |-> [item |-> persistedValue],
                       pre |-> Store, preNotifications |-> notifications]
  /\ pendingLoad' = << >>
  /\ UNCHANGED <<notifications, unreadCount, settings, timeOfDay, achievements,
                 nextId, sentLog, opCount, effectDeps, fuelLog, engine, storage,
                 device, notificationStorage, notificationPersists,
                 suggestionsStorage>>
  /\ UNCHANGED suggestionVars

\* create(persist(config, notificationStorePersistConfig)) and its load
loadNotificationStore ==
  /\ opCount < MaxRestartOps
  /\ LET persistedValue == notificationStorage
         initial == [notifications |-> << >>, settings |-> defaultSettings,
                     unreadCount |-> 0]
         restored ==
           IF persistedValue = << >> THEN initial
           ELSE LET parsedState == JSON_parse(persistedValue[1])
                    stateToRestore == partializeNotifications(parsedState)
                IN  Merge(initial, stateToRestore)
     IN  /\ notifications' = restored.notifications
         /\ settings' = restored.settings
         /\ unreadCount' = restored.unreadCount
         /\ notificationPersists' = (persistedValue = << >>)
         /\ lastOp' = [op |-> "loadNotificationStore", arg |-> [item |-> persistedValue],
                       pre |-> Store, preNotifications |-> notifications,
                       preUnread |-> unreadCount]
         /\ opCount' = opCount + 1
  /\ UNCHANGED <<salary, expenses, recurringBills, currentBalance, daysRemaining,
                 averageDailySpend, fuelStatus, error, timeOfDay, achievements,
                 nextId, sentLog, effectDeps, fuelLog, engine, notificationStorage,
                 suggestionsStorage, pendingLoad>>
  /\ UNCHANGED suggestionVars
  /\ UNCHANGED deviceVars

NextRestart ==
  \/ \E amount \in RestartSalaries : opCount < MaxRestartOps /\ setSalary(amount)
  \/ \E expenseInput \in RestartExpenseInputs :
       opCount < MaxRestartOps /\ addExpense(expenseInput)
  \/ \E notificationInput \in RestartNotificationInputs :
       opCount < MaxRestartOps /\ addNotificationAt(notificationInput, timeOfDay)
  \/ \E id \in Ids(notifications) : opCount < MaxRestartOps /\ markAsRead(id)
  \/ createAppStore
  \/ loadCompletes
  \/ loadNotificationStore

SpecRestart == Init /\ [][NextRestart]_vars

----------------------------------------------------------------------------
(* The calculations called as reads (by a screen, a test or a service)     *)
(* between ledger operations.  lastOp.result is what the call returned and *)
(* sentLog what it handed to the device notifier.                          *)

\* a call that returns result, hands sends to the notifier and calls no set()
Read(op, arg, result, sends) ==
  /\ opCount < MaxCalculationOps
  /\ sentLog' = sends
  /\ lastOp' = [op |-> op, arg |-> arg, pre |-> Store,
                preNotifications |-> notifications, result |-> result]
  /\ opCount' = opCount + 1
  /\ UNCHANGED <<salary, expenses, recurringBills, currentBalance, daysRemaining,
                 averageDailySpend, fuelStatus, error, notifications, unreadCount,
                 settings, timeOfDay, achievements, nextId, effectDeps, fuelLog,
                 engine>>
  /\ UNCHANGED suggestionVars
  /\ UNCHANGED deviceVars
  /\ UNCHANGED restartVars

\* useAppStore.getState().calculateBalance()
calculateBalanceCall ==
  Read("calculateBalance", [none |-> TRUE],
       calculateBalance(salary, expenses, recurringBills), << >>)

\* useAppStore.getState().calculateDaysRemaining()
calculateDaysRemainingCall ==
  Read("calculateDaysRemaining", [none |-> TRUE],
       calculateDaysRemaining(salary, expenses, recurringBills), << >>)

\* useAppStore.getState().calculateAverageDailySpend()
calculateAverageDailySpendCall ==
  Read("calculateAverageDailySpend", [none |-> TRUE],
       calculateAverageDailySpend(expenses), << >>)

\* useAppStore.getState().calculateFuelStatus()
calculateFuelStatusCall ==
  LET fs == calculateFuelStatus(salary, expenses, recurringBills, fuelStatus)
  IN  Read("calculateFuelStatus", [none |-> TRUE], fs.status, fs.sends)

\* GamificationEngine.calculateFuelStatus(balance, salary, avgDailySpend)
engineFuelStatusCall(balance, sal, avgDailySpend) ==
  Read("GamificationEngine.calculateFuelStatus",
       [balance |-> balance, salary |-> sal],
       GamificationEngine_calculateFuelStatus(balance, sal, avgDailySpend), << >>)

NextCalculations ==
  \/ \E amount \in CalculationSalaries :
       opCount < MaxCalculationOps /\ setSalary(amount)
  \/ \E expenseInput \in CalculationExpenseInputs :
       opCount < MaxCalculationOps /\ addExpense(expenseInput)
  \/ \E id \in Ids(expenses) : opCount < MaxCalculationOps /\ deleteExpense(id)
  \/ calculateBalanceCall
  \/ calculateDaysRemainingCall
  \/ calculateAverageDailySpendCall
  \/ calculateFuelStatusCall
  \/ \E balance \in CalculationEngineBalances :
       engineFuelStatusCall(balance, EngineSalary, EngineAvgDailySpend)

SpecCalculations == Init /\ [][NextCalculations]_vars

----------------------------------------------------------------------------
(* The suggestion engine (SuggestionEngine), a pure function of a financial*)
(* context and optional analytics.  A suggestion input keeps its type,     *)
(* title, priority and impact.confidenceScore (in hundredths).             *)

\* generateEmergencySuggestions(context)
generateEmergencySuggestions(context) ==
  IF 20 * context.balance < context.salary \/ context.daysLeft < 3
  THEN << SuggestionInput("emergency", "Emergency Mode Activated", "urgent", 95) >>
  ELSE IF 10 * context.balance < context.salary \/ context.daysLeft < 7
  THEN << SuggestionInput("emergency", "Low Fuel Warning", "high", 85) >>
  ELSE << >>

\* generateBudgetSuggestions(context)
generateBudgetSuggestions(context) ==
  IF /\ 30 * context.avgDailySpend.num > context.salary * context.avgDailySpend.den
     /\ context.daysLeft < 20
  THEN << SuggestionInput("budget_adjustment", "Budget Optimization", "high", 80) >>
  ELSE << >>

\* generateInvestmentSuggestions(context)
generateInvestmentSuggestions(context) ==
  IF 2 * context.balance > context.salary /\ context.daysLeft > 25
  THEN << SuggestionInput("investment", "Investment Opportunity", "normal", 70) >>
  ELSE IF 10 * context.balance > 3 * context.salary /\ context.daysLeft > 20
  THEN << SuggestionInput("savings", "Smart Savings", "normal", 80) >>
  ELSE << >>

\* generateCategoryOptimizationSuggestions(context, analytics): the first of the
\* top three categories that takes more than 40% of the spending
generateCategoryOptimizationSuggestions(context, analytics) ==
  LET topCategories == SubSeq(analytics.categoryBreakdown, 1,
                              Min(3, Len(analytics.categoryBreakdown)))
      over == {k \in DOMAIN topCategories :
                 topCategories[k].percentage.num > 40 * topCategories[k].percentage.den}
  IN  IF over = {} THEN << >>
      ELSE << SuggestionInput("category_optimization", "Optimize Spending",
                              "normal", 60) >>

\* generateRecurringBillSuggestions(context)
generateRecurringBillSuggestions(context) ==
  IF 10 * context.recurringBillsAmount > 4 * context.salary
  THEN << SuggestionInput("recurring_bill", "Review Subscriptions", "normal", 75) >>
  ELSE << >>

\* generateFuelWarningSuggestions(context)
generateFuelWarningSuggestions(context) ==
  IF context.daysLeft < 10 /\ context.daysLeft > 0
  THEN << SuggestionInput("fuel_warning", "Fuel Running Low", "high", 85) >>
  ELSE << >>

\* priorityOrder[priority || NotificationPriority.NORMAL]
priorityOrder(priority) ==
  CASE priority = "urgent" -> 4
    [] priority = "high" -> 3
    [] priority = "normal" -> 2
    [] priority = "low" -> 1
    [] OTHER -> 2

\* the comparator of the sort: negative when a goes before b
compareSuggestions(a, b) ==
  IF priorityOrder(a.priority) # priorityOrder(b.priority)
  THEN priorityOrder(b.priority) - priorityOrder(a.priority)
  ELSE b.impact.confidenceScore - a.impact.confidenceScore

\* Array.prototype.sort with that comparator: stable, so equal elements keep
\* their order of insertion
sortSuggestions(list) ==
  LET before(j, k) ==
        \/ compareSuggestions(list[j], list[k]) < 0
        \/ compareSuggestions(list[j], list[k]) = 0 /\ j < k
      position(k) == 1 + Cardinality({j \in DOMAIN list : before(j, k)})
  IN  [p \in DOMAIN list |-> list[CHOOSE k \in DOMAIN list : position(k) = p]]

\* the candidates in the order generateSuggestions pushes them
SuggestionEngineCandidates(context, analytics) ==
  generateEmergencySuggestions(context)
  \o generateBudgetSuggestions(context)
  \o generateInvestmentSuggestions(context)
  \o (IF analytics = << >> THEN << >>
      ELSE generateCategoryOptimizationSuggestions(context, analytics[1]))
  \o generateRecurringBillSuggestions(context)
  \o generateFuelWarningSuggestions(context)

SuggestionEngine_generateSuggestions_Unsorted(context, analytics) ==
  LET sorted == SuggestionEngineCandidates(context, analytics)
  IN  SubSeq(sorted, 1, Min(5, Len(sorted)))

\* SuggestionEngine.generateSuggestions(context, analytics)
SuggestionEngine_generateSuggestions(context, analytics) ==
  LET sorted == sortSuggestions(SuggestionEngineCandidates(context, analytics))
  IN  SubSeq(sorted, 1, Min(5, Len(sorted)))

\* SuggestionEngine.getInstance().generateSuggestions(context, analytics) called
\* by a client; the engine holds no state and calls no store
suggestionEngineCall(context, analytics) ==
  /\ opCount < MaxSuggestionEngineCalls
  /\ lastOp' = [op |-> "SuggestionEngine.generateSuggestions",
                arg |-> [context |-> context, analytics |-> analytics],
                pre |-> Store, preNotifications |-> notifications,
                result |-> SuggestionEngine_generateSuggestions(context, analytics)]
  /\ opCount' = opCount + 1
  /\ UNCHANGED <<salary, expenses, recurringBills, currentBalance, daysRemaining,
                 averageDailySpend, fuelStatus, error, notifications, unreadCount,
                 settings, timeOfDay, achievements, nextId, sentLog, effectDeps,
                 fuelLog, engine>>
  /\ UNCHANGED suggestionVars
  /\ UNCHANGED deviceVars
  /\ UNCHANGED restartVars

NextSuggestionEngine ==
  \E context \in SuggestionEngineContexts, analytics \in SuggestionEngineAnalytics :
    suggestionEngineCall(context, analytics)

SpecSuggestionEngine == Init /\ [][NextSuggestionEngine]_vars

----------------------------------------------------------------------------
(* Vocabulary of the properties *)

\* salary minus every expense minus the bills that are active and auto-deducted
LedgerNet ==
  salary.amount - SumAt(expenses, DOMAIN expenses)
    - SumAt(recurringBills, {i \in DOMAIN recurringBills :
                               recurringBills[i].isActive /\ recurringBills[i].autoDeduct})

Balance == calculateBalance(salary, expenses, recurringBills)
AvgSpend == calculateAverageDailySpend(expenses)
DaysLeft == calculateDaysRemaining(salary, expenses, recurringBills)
Status == calculateFuelStatus(salary, expenses, recurringBills, fuelStatus).status

LevelOrder == <<"empty", "critical", "low", "medium", "high", "full">>
Rank(level) == CHOOSE i \in 1..6 : LevelOrder[i] = level

\* the store's state before the last operation, and what the calculations
\* returned for it
Pre == lastOp.pre
PreBalance == calculateBalance(Pre.salary, Pre.expenses, Pre.recurringBills)
PreNet(sal, exps, bills) ==
  sal.amount - SumAt(exps, DOMAIN exps)
    - SumAt(bills, {i \in DOMAIN bills : bills[i].isActive /\ bills[i].autoDeduct})

\* C1: after any sequence of ledger mutations calculateBalance() is
\* max(0, salary - all expenses - active auto-deduct bills), never negative,
\* and 0 while no salary is set.
C1_BalanceFormula ==
  /\ Balance >= 0
  /\ ~salary.present => Balance = 0
  /\ salary.present => Balance = (IF LedgerNet > 0 THEN LedgerNet ELSE 0)

\* C1 witness: a salary, an expense, a bill that is deducted and one that is not
C1_Witness ==
  /\ salary.present /\ Len(expenses) >= 1
  /\ \E i, j \in DOMAIN recurringBills :
       /\ recurringBills[i].isActive /\ recurringBills[i].autoDeduct
       /\ ~(recurringBills[j].isActive /\ recurringBills[j].autoDeduct)
  /\ Balance > 0

EmptyLedger(st) ==
  ~st.salary.present /\ st.expenses = << >> /\ st.recurringBills = << >>

\* the ledger holds a salary, no bills and exactly one expense, with identifier id
OneExpenseLedger(st, id) ==
  /\ st.salary.present /\ st.recurringBills = << >>
  /\ Len(st.expenses) = 1 /\ st.expenses[1].id = id

\* C2: from an empty ledger setSalary(S) makes currentBalance S; then
\* addExpense(a) makes it S - a; updating that expense to b makes it S - b;
\* deleting it makes it S again (0 < a, b <= S).
C2_ExpenseFlow ==
  /\ (lastOp.op = "setSalary" /\ EmptyLedger(Pre))
       => currentBalance = lastOp.arg.amount
  /\ (/\ lastOp.op = "addExpense"
      /\ Pre.salary.present /\ Pre.expenses = << >> /\ Pre.recurringBills = << >>
      /\ 0 < lastOp.arg.amount /\ lastOp.arg.amount <= salary.amount)
       => currentBalance = salary.amount - lastOp.arg.amount
  /\ (/\ lastOp.op = "updateExpense" /\ OneExpenseLedger(Pre, lastOp.arg.id)
      /\ 0 < lastOp.arg.updates.amount /\ lastOp.arg.updates.amount <= salary.amount)
       => currentBalance = salary.amount - lastOp.arg.updates.amount
  /\ (lastOp.op = "deleteExpense" /\ OneExpenseLedger(Pre, lastOp.arg.id))
       => currentBalance = salary.amount

\* the steps of C2 after the first one, which the code does satisfy
C2_LaterSteps ==
  /\ (/\ lastOp.op = "addExpense"
      /\ Pre.salary.present /\ Pre.expenses = << >> /\ Pre.recurringBills = << >>
      /\ 0 < lastOp.arg.amount /\ lastOp.arg.amount <= salary.amount)
       => currentBalance = salary.amount - lastOp.arg.amount
  /\ (/\ lastOp.op = "updateExpense" /\ OneExpenseLedger(Pre, lastOp.arg.id)
      /\ 0 < lastOp.arg.updates.amount /\ lastOp.arg.updates.amount <= salary.amount)
       => currentBalance = salary.amount - lastOp.arg.updates.amount
  /\ (lastOp.op = "deleteExpense" /\ OneExpenseLedger(Pre, lastOp.arg.id))
       => currentBalance = salary.amount

\* the bill of the pre-state that the last operation addressed, if any
PreBillIndex == {i \in DOMAIN Pre.recurringBills : Pre.recurringBills[i].id = lastOp.arg.id}

\* neither the ledger before nor the ledger after the operation is clamped at 0
Unclamped ==
  /\ Pre.salary.present /\ salary.present
  /\ PreNet(Pre.salary, Pre.expenses, Pre.recurringBills) >= 0
  /\ LedgerNet >= 0

\* C3: adding an auto-deduct bill lowers currentBalance by its amount, and
\* setting autoDeduct to false on a deducted bill raises currentBalance by
\* exactly that bill's amount (balance not clamped at 0).
C3_BillDelta ==
  /\ (lastOp.op = "addRecurringBill" /\ lastOp.arg.autoDeduct /\ Unclamped)
       => currentBalance = Pre.currentBalance - lastOp.arg.amount
  /\ (/\ lastOp.op = "updateRecurringBill" /\ Unclamped
      /\ lastOp.arg.updates = [autoDeduct |-> FALSE])
       => \A i \in PreBillIndex :
            (Pre.recurringBills[i].isActive /\ Pre.recurringBills[i].autoDeduct)
              => currentBalance = Pre.currentBalance + Pre.recurringBills[i].amount

\* the cached values the store held before the last operation were those of
\* its ledger
PreFresh ==
  /\ Pre.currentBalance = PreBalance
  /\ Pre.daysRemaining =
       calculateDaysRemaining(Pre.salary, Pre.expenses, Pre.recurringBills)
  /\ Pre.fuelStatus.level =
       calculateFuelStatus(Pre.salary, Pre.expenses, Pre.recurringBills,
                           Pre.fuelStatus).status.level

\* C3 holds whenever the cached balance was up to date before the operation
C3_BillDeltaFromFreshCache == PreFresh => C3_BillDelta

\* the level the thresholds 75, 50, 25, 10, 5 assign to balance / salary,
\* counted as the number of thresholds the percentage exceeds
StepLevel(balance, sal) ==
  LevelOrder[1 + Cardinality({t \in {5, 10, 25, 50, 75} : 100 * balance > t * sal})]

C5_LevelsAt90And70 ==
  /\ (salary.present /\ 100 * Balance = 90 * salary.amount) => Status.level = "high"
  /\ (salary.present /\ 100 * Balance = 70 * salary.amount) => Status.level = "medium"

\* the ledger of the scenario: salary 15000 and the expenses 2000 (today),
\* 1500 (yesterday) and 1000 (two days ago), just added
ScenarioFourLedger ==
  /\ lastOp.op = "addExpense"
  /\ salary.present /\ salary.amount = 15000 /\ recurringBills = << >>
  /\ Len(expenses) = 3
  /\ {<<expenses[i].amount, expenses[i].age, expenses[i].source>> : i \in 1..3}
       = {<<2000, 0, "manual">>, <<1500, 1, "manual">>, <<1000, 2, "manual">>}

\* C6: the average daily spend divides the qualifying total by the days the
\* expenses span: in the scenario averageDailySpend is 1500 and daysRemaining 7.
C6_ScenarioAverage ==
  ScenarioFourLedger =>
    /\ averageDailySpend.num = 1500 * averageDailySpend.den
    /\ AvgSpend.num = 1500 * AvgSpend.den
    /\ daysRemaining = 7
    /\ DaysLeft = 7

\* d is floor(balance / avg) for a positive average (the floor of the double
\* quotient, which lies at most one below the exact quotient when that is a
\* whole number), 999 for a zero average and a positive balance, 0 when both are 0
IsDaysRemaining(d, balance, avg) ==
  /\ (avg.num = 0 /\ balance > 0) => d = 999
  /\ (avg.num = 0 /\ balance = 0) => d = 0
  /\ avg.num > 0 =>
       /\ d * avg.num <= balance * avg.den
       /\ (d + 1) * avg.num >= balance * avg.den
       /\ (balance * avg.den) % avg.num # 0 => (d + 1) * avg.num > balance * avg.den

FuelSendTypes == {"fuel_empty", "fuel_critical", "fuel_low", "fuel_full"}

\* the last operation handed a fuel notification to the device notifier
FuelNotificationSent == \E i \in DOMAIN sentLog : sentLog[i].type \in FuelSendTypes

\* C8: a fuel notification is produced only when a recomputation lowers the
\* fuel level (empty < critical < low < medium < high < full); a recomputation
\* in which the level rises produces none.  Stated for recomputations that
\* start from an up-to-date cache.
C8_OnlyOnDowngrade ==
  (lastOp.op # "init" /\ PreFresh /\ FuelNotificationSent)
    => Rank(fuelStatus.level) < Rank(Pre.fuelStatus.level)

\* the notification-store entries the last operation added
AddedNotifications ==
  SubSeq(notifications, 1, Len(notifications) - Len(lastOp.preNotifications))

BigSpendRecorded ==
  \E i \in DOMAIN AddedNotifications : AddedNotifications[i].type = "big_spend"

\* two logged recomputations in a row that both yielded critical
TwoCritical(log) ==
  Len(log) = 2 /\ log[1].level = "critical" /\ log[2].level = "critical"

\* C9: two consecutive recomputations that both yield fuel level critical
\* produce exactly one fuel notification in total, whatever daysRemaining and
\* percentage are in each (in the mounted application and in the engine)
C9_OneNotificationForTwoCritical ==
  /\ (TwoCritical(fuelLog) /\ ~EffectPending)
       => fuelLog[1].produced + fuelLog[2].produced = 1
  /\ TwoCritical(engine.log)
       => engine.log[1].produced + engine.log[2].produced = 1

\* C9, the mounted application alone
C9_HandlerRetrigger ==
  (TwoCritical(fuelLog) /\ ~EffectPending)
    => fuelLog[1].produced + fuelLog[2].produced = 1

\* C9, the engine alone
C9_EngineRetrigger ==
  TwoCritical(engine.log) => engine.log[1].produced + engine.log[2].produced = 1

\* C10: addExpense records a big_spend notification if and only if the amount
\* exceeds 10% of the balance the ledger had before the expense was added, and
\* the notification carries the days remaining before and after the mutation.
C10_BigSpend ==
  lastOp.op = "addExpense" =>
    /\ BigSpendRecorded <=> 10 * lastOp.arg.amount > PreBalance
    /\ \A i \in DOMAIN AddedNotifications :
         AddedNotifications[i].type = "big_spend" =>
           /\ AddedNotifications[i].actionData.previousDays =
                calculateDaysRemaining(Pre.salary, Pre.expenses, Pre.recurringBills)
           /\ AddedNotifications[i].actionData.newDays = DaysLeft

\* C10 holds for every addExpense that starts from an up-to-date cache
C10_BigSpendFromFreshCache == PreFresh => C10_BigSpend

\* the last operation was an addExpense that directly followed a setSalary on
\* the empty ledger with an empty notification list
SalaryThenOneExpense ==
  /\ opCount = 2
  /\ lastOp.op = "addExpense"
  /\ Pre.salary.present
  /\ Pre.expenses = << >>
  /\ Pre.recurringBills = << >>

\* C11: from an empty ledger and an empty notification list, setSalary(S)
\* followed by one addExpense of more than 10% of S leaves exactly one
\* notification in the notification store, of type big_spend.
C11_OneBigSpendNotification ==
  (SalaryThenOneExpense /\ 10 * lastOp.arg.amount > salary.amount)
    => /\ Len(notifications) = 1
       /\ notifications[1].type = "big_spend"

\* C11, what the store holds instead: exactly one big_spend notification,
\* stored above the salary_received notification of setSalary
C11_BigSpendAfterSalaryNotification ==
  (SalaryThenOneExpense /\ 10 * lastOp.arg.amount > salary.amount)
    => /\ Cardinality({i \in DOMAIN notifications :
                         notifications[i].type = "big_spend"}) = 1
       /\ notifications[Len(notifications)].type = "salary_received"

\* number of stored notifications that are unread
UnreadStored == Cardinality({i \in DOMAIN notifications : ~notifications[i].isRead})

\* C12: in every state reachable by addNotification, markAsRead,
\* markAllAsRead, deleteNotification and clearAllNotifications (unknown ids
\* and already-read notifications included) unreadCount is the number of
\* stored notifications with isRead = false.
C12_UnreadCount == unreadCount = UnreadStored

\* C12 witness: a read and an unread notification are stored, and the last
\* call was a markAsRead of the notification that was already read
C12_Witness ==
  /\ lastOp.op = "markAsRead"
  /\ \E i \in DOMAIN lastOp.preNotifications :
       /\ lastOp.preNotifications[i].id = lastOp.arg.id
       /\ lastOp.preNotifications[i].isRead
  /\ unreadCount = 1
  /\ Len(notifications) = 2

\* the settings toggle a notification type falls under, "none" without one
Category(type) ==
  CASE type \in {"fuel_low", "fuel_empty"} -> "fuelAlerts"
    [] type = "big_spend" -> "bigSpendAlerts"
    [] type = "achievement" -> "achievementAlerts"
    [] type = "bill_due" -> "billReminders"
    [] type = "daily_reminder" -> "dailyReminders"
    [] OTHER -> "none"

CategoryOff(type) ==
  IF Category(type) = "none" THEN FALSE ELSE ~settings[Category(type)]

\* the last addNotification left the list and unreadCount alone and handed
\* nothing to the notifier
NothingRecorded ==
  /\ notifications = lastOp.preNotifications
  /\ unreadCount = lastOp.preUnread
  /\ sentLog = << >>

\* the last addNotification stored its notification, unread, at the head of
\* the list and handed it to the notifier
Recorded ==
  /\ Len(notifications) = Len(lastOp.preNotifications) + 1
  /\ notifications[1].type = lastOp.arg.type
  /\ notifications[1].priority = lastOp.arg.priority
  /\ ~notifications[1].isRead
  /\ Tail(notifications) = lastOp.preNotifications
  /\ unreadCount = lastOp.preUnread + 1
  /\ sentLog = << [title |-> lastOp.arg.title, type |-> lastOp.arg.type] >>

\* C13: addNotification for a type whose category toggle is off records
\* nothing whatever the priority: list and unreadCount unchanged, nothing
\* handed to the notifier.
C13_DisabledCategoryDropped ==
  (lastOp.op = "addNotification" /\ CategoryOff(lastOp.arg.type)) => NothingRecorded

\* C13 witness: an urgent fuel_empty notification was added with fuelAlerts
\* off and quiet hours not enabled
C13_Witness ==
  /\ lastOp.op = "addNotification"
  /\ lastOp.arg.type = "fuel_empty"
  /\ lastOp.arg.priority = "urgent"
  /\ ~settings.fuelAlerts
  /\ ~settings.quietHours.enabled
  /\ settings.achievementAlerts

\* the time of day t lies in the quiet-hours window of the settings
InWindow(t) ==
  LET startTime == settings.quietHours.startTime
      endTime == settings.quietHours.endTime
  IN  IF startTime < endTime THEN startTime <= t /\ t <= endTime
      ELSE t >= startTime \/ t <= endTime

\* C14: with quiet hours enabled, an addNotification of an enabled category
\* issued inside the window (windows wrapping midnight included) is recorded
\* only if its priority is urgent, every other one is dropped; outside the
\* window every notification of an enabled category is recorded.
C14_QuietHours ==
  (/\ lastOp.op = "addNotification"
   /\ settings.quietHours.enabled
   /\ ~CategoryOff(lastOp.arg.type))
    => IF InWindow(timeOfDay) /\ lastOp.arg.priority # "urgent"
       THEN NothingRecorded
       ELSE Recorded

\* C14 witness: an urgent notification was recorded at 03:00 inside the
\* window 22:00-08:00, which wraps midnight
C14_Witness ==
  /\ lastOp.op = "addNotification"
  /\ settings.quietHours.enabled
  /\ settings.quietHours.startTime > settings.quietHours.endTime
  /\ timeOfDay = 3 * 60
  /\ lastOp.arg.priority = "urgent"
  /\ Recorded

\* C14 witness of the other case: a normal notification was dropped at 03:00
\* inside the wrapping window
C14_DroppedInWindow ==
  /\ lastOp.op = "addNotification"
  /\ settings.quietHours.enabled
  /\ settings.quietHours.startTime > settings.quietHours.endTime
  /\ timeOfDay = 3 * 60
  /\ lastOp.arg.priority = "normal"
  /\ ~CategoryOff(lastOp.arg.type)
  /\ NothingRecorded

\* the active suggestions: neither applied nor dismissed (none ever expires:
\* no generator sets expiresAt)
IsActiveSuggestion(suggestion) == ~suggestion.isApplied /\ ~suggestion.isDismissed
ActiveSuggestions == SelectSeq(suggestions, IsActiveSuggestion)

PriorityRank(priority) ==
  CASE priority = "urgent" -> 4
    [] priority = "high" -> 3
    [] priority = "normal" -> 2
    [] OTHER -> 1

\* list is ordered by priority, and within equal priority by confidenceScore,
\* both descending
Ranked(list) ==
  \A i, j \in DOMAIN list :
    i < j =>
      \/ PriorityRank(list[i].priority) > PriorityRank(list[j].priority)
      \/ /\ PriorityRank(list[i].priority) = PriorityRank(list[j].priority)
         /\ list[i].impact.confidenceScore >= list[j].impact.confidenceScore

\* C15: after generateSuggestions completes, the active suggestion list (the
\* rule-based and the external candidates merged) is ordered by priority and,
\* within equal priority, by confidenceScore descending, and holds at most 5.
C15_RankedAndCapped ==
  lastOp.op = "aiServiceResolves" =>
    /\ Ranked(ActiveSuggestions)
    /\ Len(ActiveSuggestions) <= 5

\* C16: when the external generator fails, generateSuggestions leaves the
\* rule-based suggestions for its context in the active list and reports no
\* error.
C16_DegradedMode ==
  lastOp.op = "aiServiceRejects" =>
    /\ suggestionsError = "null"
    /\ \A k \in DOMAIN lastOp.arg.ruleBasedSuggestions :
         \E i \in DOMAIN ActiveSuggestions :
           /\ ActiveSuggestions[i].type = lastOp.arg.ruleBasedSuggestions[k].type
           /\ ActiveSuggestions[i].title = lastOp.arg.ruleBasedSuggestions[k].title

\* the ledger was mutated after the call that just continued had started, and
\* the context the call was given is no longer the ledger's
ContextOutdated ==
  /\ opCount > lastOp.arg.startedAt
  /\ getFinancialContext(Store) # lastOp.arg.context

\* C17: if a ledger mutation occurs after generateSuggestions(context) started
\* and before the external generator returns, the suggestions computed from
\* the outdated context are discarded: none is added to the suggestion list.
C17_StaleResultDiscarded ==
  (lastOp.op = "aiServiceResolves" /\ ContextOutdated)
    => suggestions = lastOp.preSuggestions

\* the AI service's promises that settle do settle, and the continuation of
\* generateSuggestions then runs; nothing bounds a promise that stays pending
SpecSuggestionsFair ==
  /\ SpecSuggestions
  /\ WF_vars(\E i \in DOMAIN inFlight : aiServiceResolves(i))
  /\ WF_vars(\E i \in DOMAIN inFlight : aiServiceRejects(i))

\* C18: every generateSuggestions call eventually finishes with
\* isGenerating = false, even when the external generator never responds.
C18_GenerationTerminates ==
  (inFlight # << >>) ~> (inFlight = << >> /\ ~isGenerating)

\* C18, the calls whose promise settles: eventually only calls whose promise
\* stays pending are left in flight
C18_SettledCallsFinish ==
  <>[](\A i \in DOMAIN inFlight : inFlight[i].outcome = "pending")

\* C19: the active suggestion list never holds two suggestions of the same
\* type, within one generateSuggestions call and after repeated or overlapping
\* calls.
C19_NoDuplicateActiveType ==
  \A i, j \in DOMAIN ActiveSuggestions :
    i # j => ActiveSuggestions[i].type # ActiveSuggestions[j].type

\* C20: under any sequence of applySuggestion and dismissSuggestion calls no
\* suggestion is both isApplied and isDismissed.
C20_AppliedXorDismissed ==
  /\ \A i \in DOMAIN suggestions :
       ~(suggestions[i].isApplied /\ suggestions[i].isDismissed)
  /\ \A i \in DOMAIN suggestionsHistory :
       ~(suggestionsHistory[i].isApplied /\ suggestionsHistory[i].isDismissed)

----------------------------------------------------------------------------
(* C21: across updateAchievementProgress calls and the achievement checks  *)
(* run by ledger mutations, each achievement's progress.current never      *)
(* decreases and never exceeds its target, and its percentage stays within *)
(* 0..100.                                                                 *)
ProgressKept(before, after) ==
  /\ after.current >= before.current
  /\ after.current <= after.target
  /\ after.percentage \in 0..100

C21_ProgressMonotoneAndBounded ==
  [][\A a \in AchievementIds : ProgressKept(achievements[a], achievements'[a])]_vars

\* what does hold: progress is bounded from above
C21_ProgressBoundedAbove ==
  \A a \in AchievementIds :
    /\ achievements[a].current <= achievements[a].target
    /\ achievements[a].percentage <= 100

----------------------------------------------------------------------------
(* C22: each achievement is unlocked at most once: it becomes unlocked     *)
(* when its percentage first reaches 100 and stays so, and its achievement *)
(* notification is submitted exactly once however many progress updates    *)
(* follow.                                                                 *)
UnlockNotifications(a) ==
  Cardinality({i \in DOMAIN notifications :
                 /\ notifications[i].type = "achievement"
                 /\ notifications[i].actionData.title = a})

C22_UnlockedOnce ==
  /\ [](\A a \in AchievementIds :
         /\ achievements[a].percentage >= 100 => achievements[a].unlocked
         /\ UnlockNotifications(a) = IF achievements[a].unlocked THEN 1 ELSE 0)
  /\ [][\A a \in AchievementIds :
          achievements[a].unlocked => achievements'[a].unlocked]_vars

\* a progress update of an achievement that was unlocked before it
C22_Witness ==
  /\ lastOp.op = "updateAchievementProgress"
  /\ lastOp.arg.achievementId \in AchievementIds
  /\ lastOp.preAchievements[lastOp.arg.achievementId].unlocked
  /\ UnlockNotifications(lastOp.arg.achievementId) = 1

----------------------------------------------------------------------------
(* C23: addExpense with amount <= 0 is rejected: the error is surfaced to  *)
(* the caller and the expense list, currentBalance and every other derived *)
(* metric are left unchanged.                                              *)
DerivedUnchanged ==
  /\ currentBalance = lastOp.pre.currentBalance
  /\ daysRemaining = lastOp.pre.daysRemaining
  /\ averageDailySpend = lastOp.pre.averageDailySpend
  /\ fuelStatus = lastOp.pre.fuelStatus

C23_NonPositiveAmountRejected ==
  (lastOp.op = "addExpense" /\ lastOp.arg.amount <= 0) =>
     /\ error # "null"
     /\ expenses = lastOp.pre.expenses
     /\ DerivedUnchanged

----------------------------------------------------------------------------
(* C24: updateExpense, deleteExpense, updateRecurringBill and              *)
(* deleteRecurringBill called with an id that is not in the ledger leave   *)
(* expenses, recurringBills, salary and all derived metrics unchanged and  *)
(* set no error.                                                           *)
UnknownIdCall ==
  \/ /\ lastOp.op \in {"updateExpense", "deleteExpense"}
     /\ lastOp.arg.id \notin Ids(Pre.expenses)
  \/ /\ lastOp.op \in {"updateRecurringBill", "deleteRecurringBill"}
     /\ lastOp.arg.id \notin Ids(Pre.recurringBills)

LedgerUnchanged ==
  /\ salary = Pre.salary
  /\ expenses = Pre.expenses
  /\ recurringBills = Pre.recurringBills

C24_UnknownIdIsNoOp ==
  UnknownIdCall => (LedgerUnchanged /\ DerivedUnchanged /\ error = "null")

\* what does hold: the ledger itself is untouched and no error is set
C24_UnknownIdKeepsLedger ==
  UnknownIdCall => (LedgerUnchanged /\ error = "null")

----------------------------------------------------------------------------
(* C25: when the storage write triggered by a mutation fails, the mutation *)
(* still completes without an error reaching the caller and the in-memory  *)
(* state holds the new value (salary.amount after setSalary, the new       *)
(* expense after addExpense).                                              *)
WriteFailed == persists /\ device.storageFaults # "none"

C25_WriteFailureNotPropagated ==
  /\ (lastOp.op = "setSalary" /\ WriteFailed) =>
        /\ error = "null"
        /\ salary.present
        /\ salary.amount = lastOp.arg.amount
  /\ (lastOp.op = "addExpense" /\ WriteFailed) =>
        /\ error = "null"
        /\ Len(expenses) = Len(Pre.expenses) + 1
        /\ expenses[Len(expenses)].amount = lastOp.arg.amount

\* setSalary on a store none of whose writes has ever succeeded
C25_Witness ==
  /\ lastOp.op = "setSalary"
  /\ WriteFailed
  /\ device.storageFaults = "all"
  /\ storage = << >>
  /\ salary.amount = 10000

----------------------------------------------------------------------------
(* C26: persisting a ledger and reloading it into a fresh store yields the *)
(* currentBalance, averageDailySpend, daysRemaining and fuelStatus the     *)
(* store had before persisting.                                            *)
\* the last operation loaded the item that the store it replaced had written
ReloadedOwnLedger ==
  /\ lastOp.op = "loadPersistedState"
  /\ lastOp.arg.item = << JSON_stringify(partialize(Pre)) >>

C26_RoundTripKeepsDerived == ReloadedOwnLedger => DerivedUnchanged

\* what does hold: the amounts of the ledger come back
C26_RoundTripKeepsAmounts ==
  ReloadedOwnLedger =>
    /\ salary = Pre.salary
    /\ recurringBills = Pre.recurringBills
    /\ Len(expenses) = Len(Pre.expenses)
    /\ \A i \in DOMAIN expenses : expenses[i].amount = Pre.expenses[i].amount

----------------------------------------------------------------------------
(* C27: when the notifier fails while addNotification is delivering a      *)
(* notification, addNotification raises nothing and the notification stays *)
(* in the in-memory list with unreadCount already incremented.             *)
DeliveryFailed ==
  /\ lastOp.op = "addNotification"
  /\ device.notifierFails
  /\ sentLog # << >>

C27_DeliveryFailureKeepsRecord ==
  DeliveryFailed =>
    /\ error = "null"
    /\ Len(notifications) = Len(lastOp.preNotifications) + 1
    /\ notifications[1].type = lastOp.arg.type
    /\ ~notifications[1].isRead
    /\ unreadCount = lastOp.preUnread + 1

C27_Witness ==
  /\ DeliveryFailed
  /\ unreadCount >= 1
  /\ notifications[1].type = "bill_due"

----------------------------------------------------------------------------
(* C28: after each ledger mutation returns, the cached currentBalance,     *)
(* averageDailySpend, daysRemaining and fuelStatus equal the values that   *)
(* calculateBalance, calculateAverageDailySpend, calculateDaysRemaining and*)
(* calculateFuelStatus compute from the post-mutation ledger.              *)
LedgerMutations ==
  {"setSalary", "addExpense", "updateExpense", "deleteExpense",
   "addRecurringBill", "updateRecurringBill", "deleteRecurringBill"}

CacheFollowsLedger ==
  /\ currentBalance = Balance
  /\ averageDailySpend = AvgSpend
  /\ daysRemaining = DaysLeft
  /\ fuelStatus = Status

C28_CacheFollowsLedger == lastOp.op \in LedgerMutations => CacheFollowsLedger

\* what does hold: the handlers that recompute after their own set() leave
\* the cache equal to the calculations
C28_AfterRecomputingHandlers ==
  lastOp.op \in {"addExpense", "updateExpense", "deleteExpense",
                 "updateRecurringBill", "deleteRecurringBill"} => CacheFollowsLedger

----------------------------------------------------------------------------
(* C29: for every FuelStatus produced by calculateFuelStatus (the store's  *)
(* and the GamificationEngine's), the level equals the threshold function  *)
(* applied to the status's own reported (rounded) percentage, so two       *)
(* statuses with the same percentage never carry different levels.         *)
LevelOfReportedPercentage(status) == status.level = getFuelLevel(status.percentage, 1)

FuelStatusCalls == {"calculateFuelStatus", "GamificationEngine.calculateFuelStatus"}

C29_LevelFollowsReportedPercentage ==
  /\ LevelOfReportedPercentage(fuelStatus)
  /\ lastOp.op \in FuelStatusCalls => LevelOfReportedPercentage(lastOp.result)

----------------------------------------------------------------------------
(* C30: calculateBalance, calculateDaysRemaining, calculateAverageDailySpend*)
(* and calculateFuelStatus are pure reads: a call changes no store state   *)
(* and hands nothing to the notifier, so calling calculateFuelStatus       *)
(* repeatedly on an unchanged ledger sends no notification.                *)
CalculationCalls ==
  {"calculateBalance", "calculateDaysRemaining", "calculateAverageDailySpend",
   "calculateFuelStatus"}

C30_CalculationsArePureReads ==
  lastOp.op \in CalculationCalls =>
    /\ Store = Pre
    /\ notifications = lastOp.preNotifications
    /\ sentLog = << >>

\* what does hold: the three other calculations hand nothing to the notifier
C30_OtherCalculationsArePureReads ==
  lastOp.op \in CalculationCalls \ {"calculateFuelStatus"} =>
    /\ Store = Pre
    /\ notifications = lastOp.preNotifications
    /\ sentLog = << >>

----------------------------------------------------------------------------
(* C31: for every financial context and optional analytics,                *)
(* SuggestionEngine.generateSuggestions returns at most 5 suggestions,     *)
(* ordered by priority descending (urgent, high, normal, low) and, within  *)
(* equal priority, by confidenceScore descending.                          *)

SuggestionEngineCalls == {"SuggestionEngine.generateSuggestions"}

\* list is ordered by priority descending, then confidenceScore descending
OrderedByPriorityThenConfidence(list) ==
  \A k \in 1..(Len(list) - 1) :
     \/ PriorityRank(list[k].priority) > PriorityRank(list[k + 1].priority)
     \/ /\ PriorityRank(list[k].priority) = PriorityRank(list[k + 1].priority)
        /\ list[k].impact.confidenceScore >= list[k + 1].impact.confidenceScore

C31_TopFiveOrdered ==
  lastOp.op \in SuggestionEngineCalls =>
    /\ Len(lastOp.result) <= 5
    /\ OrderedByPriorityThenConfidence(lastOp.result)

\* a call that returned five suggestions of three priorities, pushed in an
\* order that is not the returned one
C31_Witness ==
  /\ lastOp.op \in SuggestionEngineCalls
  /\ Len(lastOp.result) = 5
  /\ Cardinality({lastOp.result[k].priority : k \in DOMAIN lastOp.result}) = 3
  /\ lastOp.result # SuggestionEngineCandidates(lastOp.arg.context, lastOp.arg.analytics)

----------------------------------------------------------------------------
(* C32: an urgent 'emergency' suggestion is generated if and only if       *)
(* balance < 0.05 * salary; a context with balance >= 0.05 * salary never  *)
(* yields an urgent suggestion.                                            *)

HasUrgentEmergency(list) ==
  \E k \in DOMAIN list : list[k].type = "emergency" /\ list[k].priority = "urgent"

C32_UrgentIffBelowFivePercent ==
  lastOp.op \in SuggestionEngineCalls =>
    /\ HasUrgentEmergency(lastOp.result)
         <=> 20 * lastOp.arg.context.balance < lastOp.arg.context.salary
    /\ 20 * lastOp.arg.context.balance >= lastOp.arg.context.salary
         => \A k \in DOMAIN lastOp.result : lastOp.result[k].priority # "urgent"

\* the same statement for the rule of the suggestions store
C32_StoreRuleUrgentIffBelowFivePercent ==
  lastOp.op = "generateSuggestions" =>
    (HasUrgentEmergency(lastOp.arg.ruleBasedSuggestions)
       <=> 20 * lastOp.arg.context.balance < lastOp.arg.context.salary)

----------------------------------------------------------------------------
(* C33: an 'investment' suggestion is generated only when balance > 0.5 *  *)
(* salary and daysLeft > 25, and a 'savings' suggestion only when 0.3 *    *)
(* salary < balance <= 0.5 * salary and daysLeft > 20, so the two are never*)
(* generated for the same context.                                         *)

HasType(list, type) == \E k \in DOMAIN list : list[k].type = type

InvestmentAndSavingsBands(context, list) ==
  /\ HasType(list, "investment")
       => 2 * context.balance > context.salary /\ context.daysLeft > 25
  /\ HasType(list, "savings")
       => /\ 10 * context.balance > 3 * context.salary
          /\ 2 * context.balance <= context.salary
          /\ context.daysLeft > 20
  /\ ~(HasType(list, "investment") /\ HasType(list, "savings"))

C33_InvestmentAndSavingsExclusive ==
  lastOp.op \in SuggestionEngineCalls =>
    InvestmentAndSavingsBands(lastOp.arg.context, lastOp.result)

\* the same statement for the rules of the suggestions store
C33_StoreRulesExclusive ==
  lastOp.op = "generateSuggestions" =>
    InvestmentAndSavingsBands(lastOp.arg.context, lastOp.arg.ruleBasedSuggestions)

----------------------------------------------------------------------------
(* C34: the suggestion history is append-only and capped: under any        *)
(* sequence of applySuggestion and dismissSuggestion calls, entries are    *)
(* only ever appended and the history never holds more than 20 entries.    *)

IsPrefix(s, t) == Len(s) <= Len(t) /\ SubSeq(t, 1, Len(s)) = s

C34_HistoryAppendOnlyAndCapped ==
  [][/\ IsPrefix(suggestionsHistory, suggestionsHistory')
     /\ Len(suggestionsHistory') <= 20]_vars

\* what does hold: entries are only ever appended
C34_HistoryAppendOnly ==
  [][IsPrefix(suggestionsHistory, suggestionsHistory')]_vars

----------------------------------------------------------------------------
(* C35: the persisted snapshot keeps the most recent entries: the 50 most  *)
(* recently added notifications and the 20 most recently added             *)
(* suggestion-history entries, dropping older ones.                        *)

\* the last n entries of a list that grows at its end
LastEntries(list, n) == SubSeq(list, Max(1, Len(list) - n + 1), Len(list))

\* the n entries of a list with the largest (latest generated) ids, in list order
LatestById(list, n) ==
  LET Late(e) == Cardinality({j \in DOMAIN list : list[j].id > e.id}) < n
  IN  SelectSeq(list, Late)

C35_SnapshotKeepsMostRecent ==
  /\ (notificationStorage # << >> /\ notificationPersists
        /\ device.storageFaults = "none") =>
       notificationStorage[1].notifications = LatestById(notifications, 50)
  /\ (suggestionsStorage # << >> /\ device.storageFaults = "none") =>
       suggestionsStorage[1].suggestionsHistory = LastEntries(suggestionsHistory, 20)

\* what does hold for the history: the snapshot keeps its first 20 entries
C35_SnapshotKeepsOldestHistory ==
  (suggestionsStorage # << >> /\ device.storageFaults = "none") =>
    suggestionsStorage[1].suggestionsHistory =
      SubSeq(suggestionsHistory, 1, Min(20, Len(suggestionsHistory)))

----------------------------------------------------------------------------
(* C36: an expense's id is immutable: no updateExpense call, whatever      *)
(* fields the patch contains, changes the id of any expense, so the ids in *)
(* the ledger stay pairwise distinct after any sequence of add, update and *)
(* delete operations.                                                      *)

PairwiseDistinctIds(records) ==
  \A i, j \in DOMAIN records : records[i].id = records[j].id => i = j

C36_ExpenseIdImmutable ==
  /\ lastOp.op = "updateExpense" =>
       /\ Len(expenses) = Len(Pre.expenses)
       /\ \A i \in DOMAIN expenses : expenses[i].id = Pre.expenses[i].id
  /\ PairwiseDistinctIds(expenses)

\* what does hold: a patch that does not name the id leaves every id alone
C36_IdKeptByOtherPatches ==
  (lastOp.op = "updateExpense" /\ "id" \notin DOMAIN lastOp.arg.updates) =>
    /\ Len(expenses) = Len(Pre.expenses)
    /\ \A i \in DOMAIN expenses : expenses[i].id = Pre.expenses[i].id

----------------------------------------------------------------------------
(* C37: the 'expense-logger-100' achievement ('Log 100 expenses') is       *)
(* unlocked only once the ledger holds at least 100 expenses: after any    *)
(* sequence of addExpense calls its progress.current never exceeds the     *)
(* number of expenses logged.                                              *)

ExpenseLogger == achievements["expense-logger-100"]

C37_LoggerCountsExpenses ==
  /\ ExpenseLogger.current <= Len(expenses)
  /\ ExpenseLogger.unlocked => Len(expenses) >= 100

\* what does hold: the count never exceeds the target
C37_LoggerWithinTarget ==
  ExpenseLogger.current <= ExpenseLogger.target

----------------------------------------------------------------------------
(* C38: after the notification store is rehydrated from a persisted        *)
(* snapshot, unreadCount equals the number of restored notifications with  *)
(* isRead = false.                                                         *)

\* the last operation created the notification store and restored a snapshot
RehydratedNotifications ==
  /\ lastOp.op = "loadNotificationStore"
  /\ lastOp.arg.item # << >>

C38_UnreadCountAfterRehydration ==
  RehydratedNotifications =>
    unreadCount = UnreadStored

\* what does hold: the notifications come back as they were stored, and
\* unreadCount is the initial 0
C38_RehydrationRestoresList ==
  RehydratedNotifications =>
    /\ notifications = lastOp.arg.item[1].notifications
    /\ settings = lastOp.arg.item[1].settings
    /\ unreadCount = 0

----------------------------------------------------------------------------
(* C39: after a store has been rehydrated from storage, every later state  *)
(* change made through a store action is still followed by a write of the  *)
(* new state to storage.                                                   *)

NotificationMutations ==
  {"addNotification", "markAsRead", "markAllAsRead", "deleteNotification",
   "clearAllNotifications", "updateSettings"}

\* the last operation was an action of a store whose initial load is done
AfterLoadLedgerMutation == lastOp.op \in LedgerMutations /\ pendingLoad = << >>

C39_WritesContinueAfterRehydration ==
  /\ AfterLoadLedgerMutation =>
       storage = << JSON_stringify(partialize(Store)) >>
  /\ lastOp.op \in NotificationMutations =>
       notificationStorage =
         << partializeNotifications([notifications |-> notifications,
                                     settings |-> settings]) >>

\* what does hold: the writes continue when the load found no item
C39_WritesContinueAfterEmptyLoad ==
  /\ (AfterLoadLedgerMutation /\ persists) =>
       storage = << JSON_stringify(partialize(Store)) >>
  /\ (lastOp.op \in NotificationMutations /\ notificationPersists) =>
       notificationStorage =
         << partializeNotifications([notifications |-> notifications,
                                     settings |-> settings]) >>

----------------------------------------------------------------------------
(* C40: a ledger mutation applied after store creation but before the      *)
(* asynchronous initial load from storage completes is not lost: once the  *)
(* load completes, the in-memory ledger still contains that mutation's     *)
(* effect.                                                                 *)

\* the ledger of st contains everything the ledger of before contains
LedgerContains(st, before) ==
  /\ before.salary.present => st.salary = before.salary
  /\ \A i \in DOMAIN before.expenses :
        \E j \in DOMAIN st.expenses : st.expenses[j].id = before.expenses[i].id
  /\ \A i \in DOMAIN before.recurringBills :
        \E j \in DOMAIN st.recurringBills :
           st.recurringBills[j].id = before.recurringBills[i].id

\* Pre is the store just before the load completed: created empty, it holds
\* exactly what the mutations made since the creation
C40_EarlyMutationSurvivesLoad ==
  lastOp.op = "loadCompletes" => LedgerContains(Store, Pre)

\* what does hold: nothing is lost when the load finds no item
C40_EarlyMutationSurvivesEmptyLoad ==
  (lastOp.op = "loadCompletes" /\ lastOp.arg.item = << >>) => Store = Pre

====
